---- MODULE Spec2Model ----
(***************************************************************************)
(* A model of the 4D analyser: the pickle-backed history cache             *)
(* (cache_manager.py), the upstream scraper it calls (data_fetcher.py),    *)
(* the digit analysis and selection (analyzer.py), the number generator    *)
(* and filter (filter.py) and the walk-forward backtest (backtest.py).     *)
(*                                                                         *)
(* A DataFrame is a sequence of rows [date, num, type]; its index is the   *)
(* date column.  Dates are day numbers.  A prize number is a tuple of      *)
(* one-character strings, so that its leading character can be read.       *)
(***************************************************************************)
EXTENDS Integers, Sequences, FiniteSets, TLC

VARIABLES
    today,      \* datetime.now().date()
    upstream,   \* the remote site: draw date -> result page, or NoDraw
    file,       \* the cache file on disk
    call,       \* the fetch_with_cache call of the current run: its arguments and what it did
    pFn,        \* pure-function harness: the function applied
    pIn,        \*   its arguments
    pOut,       \*   its result
    bt          \* one run of backtest_digit_prediction: its arguments, locals and position

cacheVars == <<today, upstream, file, call>>
pureVars == <<pFn, pIn, pOut>>
vars == <<today, upstream, file, call, pFn, pIn, pOut, bt>>

----------------------------------------------------------------------------
(* Bounds *)

MaxDay == 3
MaxExtras == 1
MaxDraws == 12
MaxWindow == 2
MaxRows == 2
MaxDigits == 2
MaxCount == 3
MaxAlpha == 2

Dates == 1..MaxDay

----------------------------------------------------------------------------
(* constants.py *)

FD_FIRST_PRIZE_CLASS == "tdFirstPrize"
FD_SECOND_PRIZE_CLASS == "tdSecondPrize"
FD_THIRD_PRIZE_CLASS == "tdThirdPrize"
FD_STARTER_PRIZE_CLASS == "tbodyStarterPrizes"
FD_CONSOLATION_PRIZE_CLASS == "tbodyConsolationPrizes"

TOP_3_PRIZE_TYPES == <<FD_FIRST_PRIZE_CLASS, FD_SECOND_PRIZE_CLASS, FD_THIRD_PRIZE_CLASS>>

----------------------------------------------------------------------------
(* DataFrame helpers *)

\* A day without a draw on the site: a page with nothing on it.
NoDraw ==
    [first |-> << >>, second |-> << >>, third |-> << >>,
     starters |-> << >>, consolations |-> << >>]
EmptyDf == << >>

SeqRange(q) == {q[k] : k \in 1..Len(q)}

Row(d, n, t) == [date |-> d, num |-> n, type |-> t]

SetMax(S) == CHOOSE x \in S : \A y \in S : y <= x
SetMin(S) == CHOOSE x \in S : \A y \in S : x <= y

IndexDates(df) == {df[i].date : i \in 1..Len(df)}

\* df.index.max().date()
IndexMax(df) == SetMax(IndexDates(df))

\* df.empty
DfEmpty(df) == Len(df) = 0

\* The rows of df at the positions in keep, in df's order (boolean-mask selection).
RECURSIVE MaskFrom(_, _, _)
MaskFrom(df, keep, i) ==
    IF i > Len(df) THEN << >>
    ELSE (IF i \in keep THEN <<df[i]>> ELSE << >>) \o MaskFrom(df, keep, i + 1)

BoolMask(df, keep) == MaskFrom(df, keep, 1)

\* mask = (df.index >= Timestamp(date_from)) & (df.index <= Timestamp(date_to)); df[mask]
FilterRange(df, date_from, date_to) ==
    BoolMask(df, {i \in 1..Len(df) : df[i].date >= date_from /\ df[i].date <= date_to})

\* ~df.index.duplicated(keep='last'): a row stays when no later row has its index value
DropIndexDuplicatesKeepLast(df) ==
    BoolMask(df, {i \in 1..Len(df) : \A j \in (i + 1)..Len(df) : df[j].date # df[i].date})

\* df.sort_index(): ascending by date; rows of one date keep their order
RECURSIVE SortIndexFrom(_, _)
SortIndexFrom(df, d) ==
    IF d > MaxDay + 1 THEN << >>
    ELSE BoolMask(df, {i \in 1..Len(df) : df[i].date = d}) \o SortIndexFrom(df, d + 1)

SortIndex(df) == SortIndexFrom(df, 0)

----------------------------------------------------------------------------
(* The remote site (data_fetcher.py) *)

N1234 == <<"1", "2", "3", "4">>
N0567 == <<"0", "5", "6", "7">>
N9012 == <<"9", "0", "1", "2">>
N3456 == <<"3", "4", "5", "6">>
N7890 == <<"7", "8", "9", "0">>

RECURSIVE Repeat(_, _)
Repeat(x, k) == IF k = 0 THEN << >> ELSE <<x>> \o Repeat(x, k - 1)

\* A result page: the three top prizes and the starter and consolation tables.
Page(k) ==
    [first |-> N1234, second |-> N0567, third |-> N9012,
     starters |-> Repeat(N3456, k), consolations |-> Repeat(N7890, k)]

PageSet == {Page(k) : k \in 0..MaxExtras}

RECURSIVE TypedRows(_, _, _)
TypedRows(d, nums, t) ==
    IF nums = << >> THEN << >>
    ELSE <<Row(d, Head(nums), t)>> \o TypedRows(d, Tail(nums), t)

\* fd_result_list.append(...) for one draw
PageRows(d, page) ==
    <<Row(d, page.first, FD_FIRST_PRIZE_CLASS),
      Row(d, page.second, FD_SECOND_PRIZE_CLASS),
      Row(d, page.third, FD_THIRD_PRIZE_CLASS)>>
    \o TypedRows(d, page.starters, FD_STARTER_PRIZE_CLASS)
    \o TypedRows(d, page.consolations, FD_CONSOLATION_PRIZE_CLASS)

\* The draw list of the site, newest draw first.
RECURSIVE DrawListFrom(_, _)
DrawListFrom(site, d) ==
    IF d < 1 THEN << >>
    ELSE (IF site[d] # NoDraw THEN <<d>> ELSE << >>) \o DrawListFrom(site, d - 1)

DrawList(site) == DrawListFrom(site, MaxDay)

\* The loop over the draw list: a page that fails to load or parse is skipped,
\* a draw date before date_from ends the loop, a date in range adds its rows.
RECURSIVE FetchLoop(_, _, _, _, _)
FetchLoop(site, ids, date_from, date_to, failedPage) ==
    IF ids = << >> THEN << >>
    ELSE LET d == Head(ids) IN
         IF d = failedPage THEN FetchLoop(site, Tail(ids), date_from, date_to, failedPage)
         ELSE IF d < date_from THEN << >>
         ELSE (IF date_from <= d /\ d <= date_to THEN PageRows(d, site[d]) ELSE << >>)
              \o FetchLoop(site, Tail(ids), date_from, date_to, failedPage)

\* net = [listFails: the request for the draw list raises,
\*        failedPage: the draw whose page request or parse raises (0: none)]
fetch_fd_results(site, date_from, date_to, net) ==
    IF net.listFails
    THEN [raised |-> TRUE, df |-> EmptyDf]
    ELSE [raised |-> FALSE,
          df |-> FetchLoop(site, DrawList(site), date_from, date_to, net.failedPage)]

----------------------------------------------------------------------------
(* The cache file (cache_manager.py) *)

AbsentFile == [kind |-> "absent", df |-> EmptyDf, last_date |-> 0]
PickleFile(df, last_date) == [kind |-> "pickle", df |-> df, last_date |-> last_date]
\* open(cache_file, 'wb') has truncated the file and nothing was written yet
TruncatedFile == [kind |-> "truncated", df |-> EmptyDf, last_date |-> 0]
\* pickle.dump stopped part-way
PartialFile == [kind |-> "partial", df |-> EmptyDf, last_date |-> 0]

Unreadable(f) == f.kind \in {"truncated", "partial"}

NotLoaded == [raised |-> FALSE, found |-> FALSE, df |-> EmptyDf, last_date |-> 0]

\* load_cache without its try/except: an unreadable file raises out of it
load_cache_Uncaught(f) ==
    IF f.kind = "absent" THEN NotLoaded
    ELSE IF Unreadable(f) THEN [raised |-> TRUE, found |-> FALSE, df |-> EmptyDf, last_date |-> 0]
    ELSE IF ~DfEmpty(f.df)
         THEN [raised |-> FALSE, found |-> TRUE, df |-> f.df, last_date |-> f.last_date]
         ELSE NotLoaded

\* (df, last_date), or (None, None): no file, pickle.load raising (caught), or no rows
load_cache(f) ==
    IF f.kind = "absent" THEN NotLoaded
    ELSE IF Unreadable(f) THEN NotLoaded
    ELSE IF ~DfEmpty(f.df)
         THEN [raised |-> FALSE, found |-> TRUE, df |-> f.df, last_date |-> f.last_date]
         ELSE NotLoaded

\* What happens to the process while save_cache runs:
\*   "ok"             the dump completes
\*   "dump_error"     pickle.dump raises; save_cache prints the error and returns
\*   "crash_makedirs" the process dies before open()
\*   "crash_opened"   the process dies after open(cache_file, 'wb'), before the dump
\*   "crash_dumping"  the process dies during pickle.dump
DiskSet == {"ok", "dump_error", "crash_makedirs", "crash_opened", "crash_dumping"}

save_cache(f, df, last_date, disk) ==
    CASE disk = "ok"             -> [file |-> PickleFile(df, last_date), crashed |-> FALSE]
      [] disk = "dump_error"     -> [file |-> PartialFile, crashed |-> FALSE]
      [] disk = "crash_makedirs" -> [file |-> f, crashed |-> TRUE]
      [] disk = "crash_opened"   -> [file |-> TruncatedFile, crashed |-> TRUE]
      [] disk = "crash_dumping"  -> [file |-> PartialFile, crashed |-> TRUE]

NetSet == [listFails : BOOLEAN, failedPage : 0..MaxDay]
QuietNet == [listFails |-> FALSE, failedPage |-> 0]
NoFetch == [raised |-> FALSE, df |-> EmptyDf]

\* the freshness test with > for >=
UpToDate_Strict(max_cached_date, tdy) == max_cached_date > tdy

\* if max_cached_date >= today
UpToDate(max_cached_date, tdy) == max_cached_date >= tdy

\* the update fetching the whole requested range again
FetchFrom_WholeRange(max_cached_date, date_from) == date_from

\* fetch_from = max_cached_date + 1 day, but not before date_from
FetchFrom(max_cached_date, date_from) ==
    IF max_cached_date + 1 < date_from THEN date_from ELSE max_cached_date + 1

\* concat, drop index duplicates keeping the last, sort_index
Combine(cached_df, new_df) ==
    SortIndex(DropIndexDuplicatesKeepLast(cached_df \o new_df))

\* the merge entered without testing new_df.empty
HasNewData_Untested(new_df) == TRUE

\* if not new_df.empty
HasNewData(new_df) == ~DfEmpty(new_df)

\* The merge step: the combined frame and the watermark saved with it.
MergeStep(cached_df, new_df) ==
    LET combined_df == Combine(cached_df, new_df)
    IN  [df |-> combined_df, last_date |-> IndexMax(combined_df)]

\* The result of one call: the file it leaves and the record of what it did.
Outcome(f, c) == [file |-> f, call |-> c]

\* What a run keeps of the call before this one, when it calls twice in a row.
NoPrior == [path |-> "none", requests |-> << >>, ret |-> EmptyDf, persisted |-> FALSE]

CallRecord(site, tdy, date_from, date_to, before, path, requests, net, disk, fetched, outcome, ret) ==
    [site |-> site, today |-> tdy, date_from |-> date_from, date_to |-> date_to, before |-> before,
     path |-> path, requests |-> requests, net |-> net, disk |-> disk,
     fetched |-> fetched, outcome |-> outcome, ret |-> ret, prior |-> NoPrior]

\* the cached frame returned without the date mask
UseCache_Unmasked(f, tdy, date_from, date_to, cached_df, site) ==
    Outcome(f, CallRecord(site, tdy, date_from, date_to, f, "up_to_date", << >>, QuietNet, "ok",
                          NoFetch, "returned", cached_df))

\* Cache present and max_cached_date >= today: the cached rows of the range.
UseCache(f, tdy, date_from, date_to, cached_df, site) ==
    Outcome(f, CallRecord(site, tdy, date_from, date_to, f, "up_to_date", << >>, QuietNet, "ok",
                          NoFetch, "returned", FilterRange(cached_df, date_from, date_to)))

\* Cache present and stale: fetch the days after it and merge.
UpdateCache(f, tdy, date_from, date_to, cached_df, site, net, disk) ==
    LET fetch_from == FetchFrom(IndexMax(cached_df), date_from)
        req == <<fetch_from, date_to>>
        got == fetch_fd_results(site, fetch_from, date_to, net)
        new_df == got.df
        merged == MergeStep(cached_df, new_df)
        combined_df == merged.df
        saved == save_cache(f, combined_df, merged.last_date, disk)
    IN  IF got.raised
        THEN Outcome(f, CallRecord(site, tdy, date_from, date_to, f, "update", <<req>>, net, "ok",
                                   got, "raised", EmptyDf))
        ELSE IF HasNewData(new_df)
        THEN IF saved.crashed
             THEN Outcome(saved.file,
                          CallRecord(site, tdy, date_from, date_to, f, "merge", <<req>>, net, disk,
                                     got, "crashed", EmptyDf))
             ELSE Outcome(saved.file,
                          CallRecord(site, tdy, date_from, date_to, f, "merge", <<req>>, net, disk,
                                     got, "returned",
                                     FilterRange(combined_df, date_from, date_to)))
        ELSE Outcome(f, CallRecord(site, tdy, date_from, date_to, f, "no_new_data", <<req>>, net, "ok",
                                   got, "returned", FilterRange(cached_df, date_from, date_to)))

\* No cache: fetch the whole range, save it when it has rows, return it as fetched.
FetchAll(f, tdy, date_from, date_to, site, net, disk) ==
    LET req == <<date_from, date_to>>
        got == fetch_fd_results(site, date_from, date_to, net)
        df == got.df
        saved == save_cache(f, df, IndexMax(df), disk)
    IN  IF got.raised
        THEN Outcome(f, CallRecord(site, tdy, date_from, date_to, f, "miss", <<req>>, net, "ok",
                                   got, "raised", EmptyDf))
        ELSE IF ~DfEmpty(df)
        THEN IF saved.crashed
             THEN Outcome(saved.file,
                          CallRecord(site, tdy, date_from, date_to, f, "miss", <<req>>, net, disk,
                                     got, "crashed", EmptyDf))
             ELSE Outcome(saved.file,
                          CallRecord(site, tdy, date_from, date_to, f, "miss", <<req>>, net, disk,
                                     got, "returned", df))
        ELSE Outcome(f, CallRecord(site, tdy, date_from, date_to, f, "miss", <<req>>, net, "ok",
                                   got, "returned", df))

fetch_with_cache(f, tdy, date_from, date_to, site, net, disk) ==
    LET loaded == load_cache(f) IN
    IF loaded.raised
    THEN Outcome(f, CallRecord(site, tdy, date_from, date_to, f, "load", << >>, QuietNet, "ok",
                               NoFetch, "raised", EmptyDf))
    ELSE IF loaded.found /\ ~DfEmpty(loaded.df)
    THEN IF UpToDate(IndexMax(loaded.df), tdy)
         THEN UseCache(f, tdy, date_from, date_to, loaded.df, site)
         ELSE UpdateCache(f, tdy, date_from, date_to, loaded.df, site, net, disk)
    ELSE FetchAll(f, tdy, date_from, date_to, site, net, disk)

----------------------------------------------------------------------------
(* The analyser (analyzer.py), as far as the backtest uses it.  Counts and alpha *)
(* are kept in tenths, so the weights 1.0 and 0.3 are 10 and 3; a probability   *)
(* is the exact fraction num/den.                                               *)

DigitSeq == <<"0", "1", "2", "3", "4", "5", "6", "7", "8", "9">>
DigitChars == {DigitSeq[k] : k \in 1..10}

\* str.isdigit() on one character
IsDigit(c) == c \in DigitChars

IsSpace(c) == c = " "

RECURSIVE LStrip(_)
LStrip(str) ==
    IF str # << >> /\ IsSpace(Head(str)) THEN LStrip(Tail(str)) ELSE str

RECURSIVE RStrip(_)
RStrip(str) ==
    IF str # << >> /\ IsSpace(str[Len(str)]) THEN RStrip(SubSeq(str, 1, Len(str) - 1)) ELSE str

\* str.strip()
Strip(str) == RStrip(LStrip(str))

\* prize_types=None
AllPrizeTypes == [given |-> FALSE, types |-> << >>]
PrizeTypes(types) == [given |-> TRUE, types |-> types]

\* df if prize_types is None else df[df['Prize Type'].isin(prize_types)]
FilterTypes(df, prize_types) ==
    IF ~prize_types.given THEN df
    ELSE BoolMask(df, {i \in 1..Len(df) : df[i].type \in SeqRange(prize_types.types)})

\* The loop of extract_first_digits from row k on; strip()[0] on a string that
\* strips to nothing raises IndexError.
RECURSIVE ExtractFrom(_, _, _)
ExtractFrom(filtered_df, k, first_digits) ==
    IF k > Len(filtered_df) THEN [raised |-> FALSE, first_digits |-> first_digits]
    ELSE LET prize_num == filtered_df[k].num IN
         IF Len(prize_num) >= 1
         THEN IF Strip(prize_num) = << >>
              THEN [raised |-> TRUE, first_digits |-> first_digits]
              ELSE LET first_digit == Strip(prize_num)[1] IN
                   IF IsDigit(first_digit)
                   THEN ExtractFrom(filtered_df, k + 1, Append(first_digits, first_digit))
                   ELSE ExtractFrom(filtered_df, k + 1, first_digits)
         ELSE ExtractFrom(filtered_df, k + 1, first_digits)

extract_first_digits(df, prize_types) == ExtractFrom(FilterTypes(df, prize_types), 1, << >>)

\* {str(d): 0 for d in range(10)}, then += 1 for each digit listed
count_digits(first_digits) ==
    [d \in DigitChars |-> Cardinality({k \in 1..Len(first_digits) : first_digits[k] = d})]

\* count_digits(extract_first_digits(df, prize_types)); an IndexError of the
\* extraction passes through
analyze_first_digit_by_prize_type(df, prize_types) ==
    LET extracted == extract_first_digits(df, prize_types)
    IN  [raised |-> extracted.raised, digit_counts |-> count_digits(extracted.first_digits)]

DEFAULT_PRIZE_WEIGHTS ==
    [t \in {FD_FIRST_PRIZE_CLASS, FD_SECOND_PRIZE_CLASS, FD_THIRD_PRIZE_CLASS,
            FD_STARTER_PRIZE_CLASS, FD_CONSOLATION_PRIZE_CLASS} |->
        IF t \in {FD_STARTER_PRIZE_CLASS, FD_CONSOLATION_PRIZE_CLASS} THEN 3 ELSE 10]

\* a category missing from the map weighs nothing: weights.get(prize_type, 0.0)
WeightOf_DefaultZero(weights, prize_type) ==
    IF prize_type \in DOMAIN weights THEN weights[prize_type] ELSE 0

\* weights.get(prize_type, 1.0)
WeightOf(weights, prize_type) ==
    IF prize_type \in DOMAIN weights THEN weights[prize_type] ELSE 10

ZeroCounts == [d \in DigitChars |-> 0]

RECURSIVE WeightedFrom(_, _, _, _)
WeightedFrom(df, weights, k, weighted_counts) ==
    IF k > Len(df) THEN weighted_counts
    ELSE LET prize_num == Strip(df[k].num) IN
         IF Len(prize_num) >= 1 /\ IsDigit(prize_num[1])
         THEN WeightedFrom(df, weights, k + 1,
                  [weighted_counts EXCEPT ![prize_num[1]] = @ + WeightOf(weights, df[k].type)])
         ELSE WeightedFrom(df, weights, k + 1, weighted_counts)

analyze_first_digit_weighted(df, weights) == WeightedFrom(df, weights, 1, ZeroCounts)

RECURSIVE SumOver(_, _)
SumOver(f, S) ==
    IF S = {} THEN 0
    ELSE LET x == CHOOSE y \in S : TRUE IN f[x] + SumOver(f, S \ {x})

\* sum(digit_counts.values())
TotalCount(digit_counts) == SumOver(digit_counts, DOMAIN digit_counts)

\* the numerator without alpha: digit_counts[digit] / denominator
bayesian_smoothing_Unsmoothed(digit_counts, alpha) ==
    LET total_count == TotalCount(digit_counts)
        n_digits == Cardinality(DOMAIN digit_counts)
        denominator == total_count + n_digits * alpha
    IN  [d \in DOMAIN digit_counts |-> [num |-> digit_counts[d], den |-> denominator]]

\* the denominator without alpha: total_count + n_digits
bayesian_smoothing_FixedDenominator(digit_counts, alpha) ==
    LET total_count == TotalCount(digit_counts)
        n_digits == Cardinality(DOMAIN digit_counts)
        denominator == total_count + n_digits
    IN  [d \in DOMAIN digit_counts |-> [num |-> digit_counts[d] + alpha, den |-> denominator]]

bayesian_smoothing(digit_counts, alpha) ==
    LET total_count == TotalCount(digit_counts)
        n_digits == Cardinality(DOMAIN digit_counts)
        denominator == total_count + n_digits * alpha
    IN  [d \in DOMAIN digit_counts |-> [num |-> digit_counts[d] + alpha, den |-> denominator]]

\* chi2 = sum (observed - total/10)^2 / (total/10); with the counts in tenths,
\* chi2 = ChiSquareNumerator / (100 * total).
ChiSquareNumerator(digit_counts) ==
    LET total == TotalCount(digit_counts)
        sq == [d \in DigitChars |-> (10 * digit_counts[d] - total) * (10 * digit_counts[d] - total)]
    IN  SumOver(sq, DigitChars)

\* pvalue > 0.05 with 9 degrees of freedom: chi2 below the critical value 16.9189776
PValueAboveFivePercent(digit_counts) ==
    LET total == TotalCount(digit_counts)
        over == ChiSquareNumerator(digit_counts) - 1691 * total
    IN  over <= 0 \/ (over < total /\ over * 100000 < 89776 * total)

chi_square_test_uniform(digit_counts) ==
    IF TotalCount(digit_counts) = 0
    THEN [is_uniform |-> TRUE]
    ELSE [is_uniform |-> PValueAboveFivePercent(digit_counts)]

\* the comparison with >= for >
ProbGreater_OrEqual(p, q) == p.num * q.den >= q.num * p.den

ProbGreater(p, q) == p.num * q.den > q.num * p.den

\* sorted(..., reverse=True) is stable: a digit goes after every digit already placed
\* whose probability is not smaller than its own.
RECURSIVE InsertByProbability(_, _, _)
InsertByProbability(sorted_digits, probabilities, d) ==
    IF sorted_digits = << >> THEN <<d>>
    ELSE IF ProbGreater(probabilities[d], probabilities[Head(sorted_digits)])
    THEN <<d>> \o sorted_digits
    ELSE <<Head(sorted_digits)>> \o InsertByProbability(Tail(sorted_digits), probabilities, d)

\* sorted(probabilities.items(), key=lambda x: x[1], reverse=True), the digits of it;
\* the dict lists the digits "0".."9" in this order.
RECURSIVE SortedByProbability(_, _)
SortedByProbability(probabilities, k) ==
    IF k = 0 THEN << >>
    ELSE InsertByProbability(SortedByProbability(probabilities, k - 1), probabilities, DigitSeq[k])

\* the slice one short: sorted_digits[:top_k - 1]
select_digits_by_probability_OneShort(probabilities, top_k) ==
    LET sorted_digits == SortedByProbability(probabilities, 10)
    IN  SubSeq(sorted_digits, 1, IF top_k - 1 < Len(sorted_digits) THEN top_k - 1
                                  ELSE Len(sorted_digits))

\* sorted_digits[:top_k]
select_digits_by_probability(probabilities, top_k) ==
    LET sorted_digits == SortedByProbability(probabilities, 10)
    IN  SubSeq(sorted_digits, 1, IF top_k < Len(sorted_digits) THEN top_k ELSE Len(sorted_digits))

----------------------------------------------------------------------------
(* The digit selectors (analyzer.py) *)

\* min_count_threshold=None
NoThreshold == [given |-> FALSE, value |-> 0]
Threshold(v) == [given |-> TRUE, value |-> v]

\* [digit for digit, count in digit_counts.items() if keep]: the dict lists "0".."9"
RECURSIVE DigitsWhere(_, _)
DigitsWhere(keep, k) ==
    IF k > 10 THEN << >>
    ELSE (IF DigitSeq[k] \in keep THEN <<DigitSeq[k]>> ELSE << >>) \o DigitsWhere(keep, k + 1)

\* sorted(selected_digits) for one-character digit strings
SortedDigits(selected_digits) == DigitsWhere(SeqRange(selected_digits), 1)

\* a sort that is not stable: a digit goes before the digits of its own count
RECURSIVE InsertByCount_BeforeEqual(_, _, _)
InsertByCount_BeforeEqual(sorted_digits, digit_counts, d) ==
    IF sorted_digits = << >> THEN <<d>>
    ELSE IF digit_counts[d] <= digit_counts[Head(sorted_digits)]
    THEN <<d>> \o sorted_digits
    ELSE <<Head(sorted_digits)>> \o
         InsertByCount_BeforeEqual(Tail(sorted_digits), digit_counts, d)

\* sorted(digit_counts.items(), key=lambda x: x[1]) is stable: a digit goes before
\* the first digit already placed whose count is greater than its own.
RECURSIVE InsertByCount(_, _, _)
InsertByCount(sorted_digits, digit_counts, d) ==
    IF sorted_digits = << >> THEN <<d>>
    ELSE IF digit_counts[d] < digit_counts[Head(sorted_digits)]
    THEN <<d>> \o sorted_digits
    ELSE <<Head(sorted_digits)>> \o InsertByCount(Tail(sorted_digits), digit_counts, d)

RECURSIVE SortedByCount(_, _)
SortedByCount(digit_counts, k) ==
    IF k = 0 THEN << >>
    ELSE InsertByCount(SortedByCount(digit_counts, k - 1), digit_counts, DigitSeq[k])

\* the test with < for <=
AtMostThreshold_Strict(digit_counts, min_count_threshold) ==
    IF min_count_threshold.given
    THEN {d \in DOMAIN digit_counts : digit_counts[d] < min_count_threshold.value}
    ELSE {d \in DOMAIN digit_counts :
            digit_counts[d] * Cardinality(DOMAIN digit_counts) < TotalCount(digit_counts)}

\* count <= min_count_threshold, the threshold being total_counts / len(digit_counts)
\* when none is given
AtMostThreshold(digit_counts, min_count_threshold) ==
    IF min_count_threshold.given
    THEN {d \in DOMAIN digit_counts : digit_counts[d] <= min_count_threshold.value}
    ELSE {d \in DOMAIN digit_counts :
            digit_counts[d] * Cardinality(DOMAIN digit_counts) <= TotalCount(digit_counts)}

select_low_occurrence_digits(digit_counts, min_count_threshold) ==
    IF ~min_count_threshold.given /\ TotalCount(digit_counts) = 0
    THEN DigitSeq
    ELSE LET selected_digits == DigitsWhere(AtMostThreshold(digit_counts, min_count_threshold), 1)
             sorted_digits == SortedByCount(digit_counts, 10)
             half == Cardinality(DOMAIN digit_counts) \div 2
             num_to_select == IF half > 1 THEN half ELSE 1
         IN  IF selected_digits = << >>
             THEN SortedDigits(SubSeq(sorted_digits, 1, num_to_select))
             ELSE SortedDigits(selected_digits)

\* the zero-count test left out
select_digits_priority_zero_NoPriority(digit_counts) ==
    select_low_occurrence_digits(digit_counts, NoThreshold)

\* without zero-count digits, the digits of the minimum count only
select_digits_priority_zero_MinimumOnly(digit_counts) ==
    LET zero_occurrence_digits == DigitsWhere({d \in DOMAIN digit_counts : digit_counts[d] = 0}, 1)
    IN  IF zero_occurrence_digits # << >>
        THEN SortedDigits(zero_occurrence_digits)
        ELSE DigitsWhere({d \in DOMAIN digit_counts :
                            \A e \in DOMAIN digit_counts : digit_counts[d] <= digit_counts[e]}, 1)

select_digits_priority_zero(digit_counts) ==
    LET zero_occurrence_digits == DigitsWhere({d \in DOMAIN digit_counts : digit_counts[d] = 0}, 1)
    IN  IF zero_occurrence_digits # << >>
        THEN SortedDigits(zero_occurrence_digits)
        ELSE select_low_occurrence_digits(digit_counts, NoThreshold)

\* the digits of the minimum count: count == min(digit_counts.values())
select_digits_lowest_occurrence(digit_counts) ==
    IF DOMAIN digit_counts = {} THEN << >>
    ELSE LET min_count == SetMin({digit_counts[d] : d \in DOMAIN digit_counts})
             selected_digits ==
                 DigitsWhere({d \in DOMAIN digit_counts : digit_counts[d] = min_count}, 1)
         IN  SortedDigits(selected_digits)

----------------------------------------------------------------------------
(* The number filter (filter.py).  A set of numbers is a set of strings; a list *)
(* made with sorted() is a sequence in the order of Python's string comparison. *)

N5678 == <<"5", "6", "7", "8">>

\* The code point of a character, for the characters prize strings are made of.
Ord(c) ==
    CASE c = " " -> 32
      [] c = "/" -> 47
      [] c \in {"0", "1", "2", "3", "4", "5", "6", "7", "8", "9"} ->
            48 + (CHOOSE k \in 0..9 : c = <<"0", "1", "2", "3", "4", "5", "6", "7", "8", "9">>[k + 1])
      [] c = "A" -> 65
      [] c = "N" -> 78

\* a < b on strings: by the first differing character, a proper prefix first
RECURSIVE StrLess(_, _)
StrLess(a, b) ==
    IF b = << >> THEN FALSE
    ELSE IF a = << >> THEN TRUE
    ELSE IF Head(a) = Head(b) THEN StrLess(Tail(a), Tail(b))
    ELSE Ord(Head(a)) < Ord(Head(b))

\* sorted(S) for a collection of distinct strings
RECURSIVE SortedStrings(_)
SortedStrings(S) ==
    IF S = {} THEN << >>
    ELSE LET least == CHOOSE a \in S : \A b \in S \ {a} : StrLess(a, b)
         IN  <<least>> \o SortedStrings(S \ {least})

\* set(df['Prize Number'].unique())
PrizeNumbers(df) == {df[i].num : i \in 1..Len(df)}

\* df[df['Prize Type'].isin(TOP_3_PRIZE_TYPES)]
Top3Rows(df) ==
    BoolMask(df, {i \in 1..Len(df) :
                    \E k \in 1..Len(TOP_3_PRIZE_TYPES) : df[i].type = TOP_3_PRIZE_TYPES[k]})

\* the first filter left out
FilteredAfter6Months_NotRemoved(numbers_set, winning_numbers_6_months) == numbers_set

\* filtered_after_6_months = numbers_set - winning_numbers_6_months
FilteredAfter6Months(numbers_set, winning_numbers_6_months) ==
    numbers_set \ winning_numbers_6_months

\* df['Prize Number'].value_counts()[num]
ValueCount(df, num) == Cardinality({i \in 1..Len(df) : df[i].num = num})

\* the count test with >= for >
NumbersAppearedMultiple_AtLeastOnce(df) == {num \in PrizeNumbers(df) : ValueCount(df, num) >= 1}

\* set(number_counts[number_counts > 1].index)
NumbersAppearedMultiple(df) == {num \in PrizeNumbers(df) : ValueCount(df, num) > 1}

filter_numbers_by_history(numbers, past_6_months_df, past_1_year_df) ==
    LET numbers_set == numbers
        winning_numbers_6_months == PrizeNumbers(past_6_months_df)
        appeared_in_6_months == SortedStrings(numbers_set \cap winning_numbers_6_months)
        filtered_after_6_months == FilteredAfter6Months(numbers_set, winning_numbers_6_months)
        top_3_numbers_1_year == PrizeNumbers(Top3Rows(past_1_year_df))
        appeared_in_top3_1year ==
            IF ~DfEmpty(past_1_year_df)
            THEN SortedStrings(filtered_after_6_months \cap top_3_numbers_1_year)
            ELSE << >>
        filtered_after_top3 ==
            IF ~DfEmpty(past_1_year_df)
            THEN filtered_after_6_months \ top_3_numbers_1_year
            ELSE filtered_after_6_months
        numbers_appeared_multiple == NumbersAppearedMultiple(past_1_year_df)
        appeared_multiple_1year ==
            IF ~DfEmpty(past_1_year_df)
            THEN SortedStrings(filtered_after_top3 \cap numbers_appeared_multiple)
            ELSE << >>
        filtered_numbers ==
            IF ~DfEmpty(past_1_year_df)
            THEN filtered_after_top3 \ numbers_appeared_multiple
            ELSE filtered_after_top3
    IN  [filtered_numbers |-> SortedStrings(filtered_numbers),
         appeared_in_6_months |-> appeared_in_6_months,
         appeared_in_top3_1year |-> appeared_in_top3_1year,
         appeared_multiple_1year |-> appeared_multiple_1year]

\* int(first_digit) for a one-digit string
IntOfDigit(first_digit) == CHOOSE k \in 0..9 : DigitSeq[k + 1] = first_digit

\* str(num) for num >= 0
RECURSIVE Str(_)
Str(num) ==
    IF num < 10 THEN <<DigitSeq[num + 1]>>
    ELSE Str(num \div 10) \o <<DigitSeq[(num % 10) + 1]>>

\* zfill left out
ZFill_NoPad(str, width) == str

\* str.zfill(width) for a string without sign
RECURSIVE ZFill(_, _)
ZFill(str, width) == IF Len(str) >= width THEN str ELSE ZFill(<<"0">> \o str, width)

\* for num in range(start_num, end_num + 1): generated_numbers.add(str(num).zfill(4))
NumbersOfDigit(first_digit) ==
    LET start_num == IntOfDigit(first_digit) * 1000
        end_num == start_num + 999
    IN  {ZFill(Str(num), 4) : num \in start_num..end_num}

generate_numbers_from_first_digits(first_digits) ==
    UNION {NumbersOfDigit(first_digits[k]) : k \in 1..Len(first_digits)}

----------------------------------------------------------------------------
(* The backtest (backtest.py) *)

SeqMax(q) == SetMax(SeqRange(q))

\* df.index.unique().sort_values()
RECURSIVE SortedDates(_)
SortedDates(S) ==
    IF S = {} THEN << >> ELSE <<SetMin(S)>> \o SortedDates(S \ {SetMin(S)})

UniqueDates(df) == SortedDates(IndexDates(df))

\* the check without its margin of 10 draws
NotEnoughDraws_NoMargin(n_dates, window_sizes) == n_dates < SeqMax(window_sizes)

\* if len(unique_dates) < max(window_sizes) + 10
NotEnoughDraws(n_dates, window_sizes) == n_dates < SeqMax(window_sizes) + 10

\* the slice shifted by one: unique_dates[i - window_size + 1:i + 1]
TrainDates_ShiftedByOne(unique_dates, i, window_size) ==
    SubSeq(unique_dates, i - window_size + 2, i + 1)

\* unique_dates[i - window_size:i], i counted from 0
TrainDates(unique_dates, i, window_size) == SubSeq(unique_dates, i - window_size + 1, i)

\* df[df.index.isin(train_dates)]
IsIn(df, dates) == BoolMask(df, {k \in 1..Len(df) : df[k].date \in SeqRange(dates)})

\* test_df[test_df['Prize Type'] == FD_FIRST_PRIZE_CLASS] of df[df.index == test_date]
FirstPrizeOn(df, test_date) ==
    BoolMask(df, {k \in 1..Len(df) :
                    df[k].date = test_date /\ df[k].type = FD_FIRST_PRIZE_CLASS})

NoRate == [num |-> 0, den |-> 0]

NewWindowResults(window_size, top_k_list) ==
    [window_size |-> window_size,
     total_tests |-> 0,
     accuracy |-> [k \in SeqRange(top_k_list) |-> [correct |-> 0, total |-> 0, rate |-> NoRate]],
     chi2_tests |-> [uniform |-> 0, non_uniform |-> 0, total |-> 0]]

\* the tally without its total
CountChi2_NoTotal(chi2_tests, chi2_result) ==
    [uniform |-> chi2_tests.uniform + (IF chi2_result.is_uniform THEN 1 ELSE 0),
     non_uniform |-> chi2_tests.non_uniform + (IF chi2_result.is_uniform THEN 0 ELSE 1),
     total |-> chi2_tests.total]

\* window_results['chi2_tests'] after one test
CountChi2(chi2_tests, chi2_result) ==
    [uniform |-> chi2_tests.uniform + (IF chi2_result.is_uniform THEN 1 ELSE 0),
     non_uniform |-> chi2_tests.non_uniform + (IF chi2_result.is_uniform THEN 0 ELSE 1),
     total |-> chi2_tests.total + 1]

\* for top_k in top_k_list: predict, count the test, count the hit
RECURSIVE CountTopK(_, _, _, _, _)
CountTopK(accuracy, top_k_list, k, probabilities, actual_first_digit) ==
    IF k > Len(top_k_list) THEN accuracy
    ELSE LET top_k == top_k_list[k]
             predicted_digits == select_digits_by_probability(probabilities, top_k)
             hit == IF actual_first_digit \in SeqRange(predicted_digits) THEN 1 ELSE 0
         IN  CountTopK([accuracy EXCEPT ![top_k].total = @ + 1, ![top_k].correct = @ + hit],
                       top_k_list, k + 1, probabilities, actual_first_digit)

\* the accuracy rates of a finished window: correct / total where total > 0
WithRates(accuracy) ==
    [k \in DOMAIN accuracy |->
        IF accuracy[k].total > 0
        THEN [accuracy[k] EXCEPT !.rate = [num |-> accuracy[k].correct, den |-> accuracy[k].total]]
        ELSE accuracy[k]]

Divisions(accuracy) == Cardinality({k \in DOMAIN accuracy : accuracy[k].total > 0})

\* results[window_size] = window_results on a dict kept as a list of entries
RECURSIVE DictSet(_, _)
DictSet(results, window_results) ==
    IF results = << >> THEN <<window_results>>
    ELSE IF Head(results).window_size = window_results.window_size
    THEN <<window_results>> \o Tail(results)
    ELSE <<Head(results)>> \o DictSet(Tail(results), window_results)

\* One pass of the loop body for test index i (counted from 0).
\* step: "no_first_prize" and "not_a_digit" are the two continues, "index_error" is
\* strip()[0] on a string with nothing left, "tested" a counted test.
Iteration(df, unique_dates, window_size, i, top_k_list, weights, alpha, window_results) ==
    LET test_date == unique_dates[i + 1]
        train_dates == TrainDates(unique_dates, i, window_size)
        train_df == IsIn(df, train_dates)
        first_prize_df == FirstPrizeOn(df, test_date)
        stripped == Strip(first_prize_df[1].num)
        actual_first_digit == stripped[1]
        weighted_counts == analyze_first_digit_weighted(train_df, weights)
        probabilities == bayesian_smoothing(weighted_counts, alpha)
        chi2_result == chi_square_test_uniform(weighted_counts)
        seen == [window_size |-> window_size, i |-> i, test_date |-> test_date,
                 train_dates |-> train_dates, train_df |-> train_df]
    IN  IF DfEmpty(first_prize_df)
        THEN [step |-> "no_first_prize", seen |-> seen, window_results |-> window_results]
        ELSE IF stripped = << >>
        THEN [step |-> "index_error", seen |-> seen, window_results |-> window_results]
        ELSE IF ~IsDigit(actual_first_digit)
        THEN [step |-> "not_a_digit", seen |-> seen, window_results |-> window_results]
        ELSE [step |-> "tested", seen |-> seen,
              window_results |->
                [window_results EXCEPT
                   !.chi2_tests = CountChi2(@, chi2_result),
                   !.accuracy = CountTopK(@, top_k_list, 1, probabilities, actual_first_digit)]]

\* The frame handed to the backtest.  A frame as fetched lists the draws newest
\* first, each with all rows of its page; a frame that went through a merge lists
\* them oldest first, each with the one row the merge leaves.  One of the newest
\* days may differ: extra starter and consolation rows, or a first prize published
\* as an empty, blank or non-numeric string.
FirstPrizeFor(d) == <<DigitSeq[(d % 10) + 1], "2", "3", "4">>

DayRows(d, kind) ==
    LET full == PageRows(d, [Page(0) EXCEPT !.first = FirstPrizeFor(d)]) IN
    CASE kind = "full"      -> full
      [] kind = "extras"    -> PageRows(d, [Page(MaxExtras) EXCEPT !.first = FirstPrizeFor(d)])
      [] kind = "collapsed" -> DropIndexDuplicatesKeepLast(full)
      [] kind = "empty"     -> PageRows(d, [Page(0) EXCEPT !.first = << >>])
      [] kind = "blank"     -> PageRows(d, [Page(0) EXCEPT !.first = <<" ", " ">>])
      [] kind = "alpha"     -> PageRows(d, [Page(0) EXCEPT !.first = <<"N", "/", "A">>])

DayKinds == {"full", "extras", "collapsed", "empty", "blank", "alpha"}

RECURSIVE HistoryFrom(_, _, _, _, _)
HistoryFrom(d, n_draws, base, odd_day, odd_kind) ==
    IF d > n_draws THEN << >>
    ELSE LET rows == DayRows(d, IF d = odd_day THEN odd_kind
                                ELSE IF base = "fetched" THEN "full" ELSE "collapsed")
             rest == HistoryFrom(d + 1, n_draws, base, odd_day, odd_kind)
         IN  IF base = "fetched" THEN rest \o rows ELSE rows \o rest

Histories ==
    {HistoryFrom(1, n_draws, base, odd_day, odd_kind) :
        n_draws \in 0..MaxDraws, base \in {"fetched", "merged"},
        odd_day \in {0} \cup ((MaxDraws - 3)..MaxDraws), odd_kind \in DayKinds}

WindowSizeLists ==
    {<<w>> : w \in 1..MaxWindow} \cup {<<w1, w2>> : w1 \in 1..MaxWindow, w2 \in 1..MaxWindow}

TopKLists == {<<1, 3, 5>>, <<10>>}

NoSeen ==
    [window_size |-> 0, i |-> 0, test_date |-> 0, train_dates |-> << >>, train_df |-> EmptyDf]

BtRecord(pc, df, window_sizes, top_k_list) ==
    [pc |-> pc, df |-> df, window_sizes |-> window_sizes, top_k_list |-> top_k_list,
     weights |-> DEFAULT_PRIZE_WEIGHTS, alpha |-> 10,
     w |-> 0, i |-> 0, window_results |-> NewWindowResults(0, << >>), results |-> << >>,
     step |-> "none", seen |-> NoSeen, divisions |-> 0, returned |-> "none"]

BtIdle == BtRecord("idle", EmptyDf, <<1>>, << >>)

----------------------------------------------------------------------------
(* The improved pipeline (4D_analyzer_refractor.py, utils.py) *)

\* The dates in descending order, the first n of them, the rows of those dates.
get_last_n_draws(df, n) ==
    IF DfEmpty(df) THEN EmptyDf
    ELSE LET ascending == UniqueDates(df)
             unique_dates == [k \in 1..Len(ascending) |-> ascending[Len(ascending) + 1 - k]]
             last_n_dates == SubSeq(unique_dates, 1, IF n < Len(unique_dates) THEN n
                                                     ELSE Len(unique_dates))
         IN  IsIn(df, last_n_dates)

\* if window_df.empty or len(window_df.index.unique()) < window_size: continue
WindowSkipped(window_df, window_size) ==
    DfEmpty(window_df) \/ Len(UniqueDates(window_df)) < window_size

\* window_analyses[window_size] of one analysed window
AnalyseWindow(window_df, window_size, top_k, alpha) ==
    LET weighted_counts == analyze_first_digit_weighted(window_df, DEFAULT_PRIZE_WEIGHTS)
        probabilities == bayesian_smoothing(weighted_counts, alpha)
    IN  [window_size |-> window_size,
         weighted_counts |-> weighted_counts,
         probabilities |-> probabilities,
         chi2_result |-> chi_square_test_uniform(weighted_counts),
         selected_digits |-> select_digits_by_probability(probabilities, top_k)]

\* for window_size in use_window_sizes, from the k-th on; the dict is a list of entries
RECURSIVE AnalyseWindows(_, _, _, _, _, _)
AnalyseWindows(historical_df, use_window_sizes, k, top_k, alpha, window_analyses) ==
    IF k > Len(use_window_sizes) THEN window_analyses
    ELSE LET window_size == use_window_sizes[k]
             window_df == get_last_n_draws(historical_df, window_size)
         IN  AnalyseWindows(historical_df, use_window_sizes, k + 1, top_k, alpha,
                 IF WindowSkipped(window_df, window_size)
                 THEN window_analyses
                 ELSE DictSet(window_analyses,
                              AnalyseWindow(window_df, window_size, top_k, alpha)))

\* window_size in window_analyses
HasKey(window_analyses, window_size) ==
    \E k \in 1..Len(window_analyses) : window_analyses[k].window_size = window_size

\* window_analyses[window_size]
Get(window_analyses, window_size) ==
    window_analyses[CHOOSE k \in 1..Len(window_analyses) :
                        window_analyses[k].window_size = window_size]

\* for i in range(window_size, len(unique_dates)), from i on, then the rates
RECURSIVE BacktestWindow(_, _, _, _, _, _, _, _)
BacktestWindow(df, unique_dates, window_size, i, top_k_list, weights, alpha, window_results) ==
    IF i >= Len(unique_dates)
    THEN [raised |-> FALSE,
          window_results |-> [window_results EXCEPT !.accuracy = WithRates(@)]]
    ELSE LET r == Iteration(df, unique_dates, window_size, i, top_k_list, weights, alpha,
                            window_results)
         IN  IF r.step = "index_error"
             THEN [raised |-> TRUE, window_results |-> window_results]
             ELSE BacktestWindow(df, unique_dates, window_size, i + 1, top_k_list, weights,
                                 alpha, r.window_results)

\* for window_size in window_sizes, from the w-th on
RECURSIVE BacktestWindows(_, _, _, _, _, _, _)
BacktestWindows(df, window_sizes, w, top_k_list, weights, alpha, results) ==
    IF w > Len(window_sizes) THEN [raised |-> FALSE, results |-> results]
    ELSE LET r == BacktestWindow(df, UniqueDates(df), window_sizes[w], window_sizes[w],
                                 top_k_list, weights, alpha,
                                 NewWindowResults(window_sizes[w], top_k_list))
         IN  IF r.raised THEN [raised |-> TRUE, results |-> results]
             ELSE BacktestWindows(df, window_sizes, w + 1, top_k_list, weights, alpha,
                                  DictSet(results, r.window_results))

\* The backtest as one call: {} for a short history, an IndexError, or the results.
backtest_digit_prediction(df, window_sizes, top_k_list, weights, alpha) ==
    IF NotEnoughDraws(Len(UniqueDates(df)), window_sizes)
    THEN [raised |-> FALSE, results |-> << >>]
    ELSE BacktestWindows(df, window_sizes, 1, top_k_list, weights, alpha, << >>)

\* for window_size in sorted(use_window_sizes, reverse=True): the first analysed
\* window that is not uniform; 0 stands for None.
RECURSIVE NonUniformWindow(_, _)
NonUniformWindow(sizes, window_analyses) ==
    IF sizes = {} THEN 0
    ELSE LET window_size == SetMax(sizes) IN
         IF /\ HasKey(window_analyses, window_size)
            /\ ~Get(window_analyses, window_size).chi2_result.is_uniform
         THEN window_size
         ELSE NonUniformWindow(sizes \ {window_size}, window_analyses)

\* best_window: the non-uniform window found, else max(use_window_sizes)
BestWindow(use_window_sizes, window_analyses) ==
    LET best_window == NonUniformWindow(SeqRange(use_window_sizes), window_analyses)
    IN  IF best_window = 0 THEN SeqMax(use_window_sizes) ELSE best_window

\* the digits both selections hold
FinalSelection_Intersection(selected_digits_step1, selected_digits_step2) ==
    DigitsWhere(SeqRange(selected_digits_step1) \cap SeqRange(selected_digits_step2), 1)

\* sorted(list(set(selected_digits_step1) | set(selected_digits_step2)))
FinalSelection(selected_digits_step1, selected_digits_step2) ==
    DigitsWhere(SeqRange(selected_digits_step1) \cup SeqRange(selected_digits_step2), 1)

OriginalResult(outcome, top3, all_prizes, step1, step2, digits) ==
    [outcome |-> outcome, top3_first_digit_counts |-> top3,
     all_prizes_first_digit_counts |-> all_prizes,
     selected_digits_step1 |-> step1, selected_digits_step2 |-> step2,
     final_selected_digits |-> digits]

\* One run of main_original on the frame the 6-month cache returns, up to the
\* selection of the digits; the numbers it goes on to return are generated from
\* final_selected_digits and filtered against the two histories.
main_original(past_6_months_df) ==
    LET last_6_draws_df == get_last_n_draws(past_6_months_df, 6)
        top3 == analyze_first_digit_by_prize_type(last_6_draws_df, PrizeTypes(TOP_3_PRIZE_TYPES))
        all_prizes == analyze_first_digit_by_prize_type(last_6_draws_df, AllPrizeTypes)
        selected_digits_step1 == select_digits_priority_zero(top3.digit_counts)
        selected_digits_step2 == select_digits_lowest_occurrence(all_prizes.digit_counts)
    IN  IF DfEmpty(past_6_months_df) \/ DfEmpty(last_6_draws_df)
        THEN OriginalResult("no_data", ZeroCounts, ZeroCounts, << >>, << >>, << >>)
        ELSE IF top3.raised
        THEN OriginalResult("raised", ZeroCounts, ZeroCounts, << >>, << >>, << >>)
        ELSE IF all_prizes.raised
        THEN OriginalResult("raised", top3.digit_counts, ZeroCounts,
                            selected_digits_step1, << >>, << >>)
        ELSE OriginalResult("selected", top3.digit_counts, all_prizes.digit_counts,
                            selected_digits_step1, selected_digits_step2,
                            FinalSelection(selected_digits_step1, selected_digits_step2))

MainResult(outcome, error, window_analyses, backtest_results, best_window, digits) ==
    [outcome |-> outcome, error |-> error, window_analyses |-> window_analyses,
     backtest_results |-> backtest_results, best_window |-> best_window,
     final_selected_digits |-> digits]

\* One run of main_improved on the frame the 1-year cache returns.  plots is what the
\* plotting library does when asked for a figure of no rows (window_analyses empty):
\* "saved" or "raised".  A run that gets to the end returns the numbers generated
\* from final_selected_digits and filtered against the two histories; the run
\* records the digits.
main_improved(historical_df, use_window_sizes, enable_backtest, top_k, alpha, plots) ==
    LET window_analyses == AnalyseWindows(historical_df, use_window_sizes, 1, top_k, alpha, << >>)
        backtest == IF enable_backtest
                    THEN backtest_digit_prediction(historical_df, use_window_sizes, <<1, 3, 5>>,
                                                   DEFAULT_PRIZE_WEIGHTS, alpha)
                    ELSE [raised |-> FALSE, results |-> << >>]
        best_window == BestWindow(use_window_sizes, window_analyses)
    IN  IF DfEmpty(historical_df)
        THEN MainResult("no_data", "none", << >>, << >>, 0, << >>)
        ELSE IF window_analyses = << >> /\ plots = "raised"
        THEN MainResult("raised", "ValueError", window_analyses, << >>, 0, << >>)
        ELSE IF backtest.raised
        THEN MainResult("raised", "IndexError", window_analyses, backtest.results, 0, << >>)
        ELSE IF ~HasKey(window_analyses, best_window)
        THEN MainResult("raised", "KeyError", window_analyses, backtest.results,
                        best_window, << >>)
        ELSE MainResult("returned", "none", window_analyses, backtest.results, best_window,
                        Get(window_analyses, best_window).selected_digits)

----------------------------------------------------------------------------
(* The cache state machine *)

NoSite == [d \in Dates |-> NoDraw]

NoCall ==
    CallRecord(NoSite, 0, 0, 0, AbsentFile, "none", << >>, QuietNet, "ok", NoFetch, "none", EmptyDf)

PureIdle == pFn = "none" /\ pIn = << >> /\ pOut = << >>

CacheIdle ==
    /\ today = 1
    /\ upstream = NoSite
    /\ file = AbsentFile
    /\ call = NoCall

Init ==
    /\ CacheIdle
    /\ PureIdle
    /\ bt = BtIdle

\* The next day begins.
Tick ==
    /\ call = NoCall
    /\ today < MaxDay
    /\ today' = today + 1
    /\ UNCHANGED <<upstream, file, call, pureVars, bt>>

\* The site publishes today's draw.
Publish ==
    /\ call = NoCall
    /\ upstream[today] = NoDraw
    /\ \E page \in PageSet : upstream' = [upstream EXCEPT ![today] = page]
    /\ UNCHANGED <<today, file, call, pureVars, bt>>

\* The range the call asks the site for, << >> when it asks for nothing.
RequestOf(f, tdy, date_from, date_to) ==
    LET loaded == load_cache(f) IN
    IF loaded.raised THEN << >>
    ELSE IF loaded.found /\ ~DfEmpty(loaded.df)
    THEN IF UpToDate(IndexMax(loaded.df), tdy) THEN << >>
         ELSE <<FetchFrom(IndexMax(loaded.df), date_from), date_to>>
    ELSE <<date_from, date_to>>

\* What the network can do to the call: nothing when it asks for nothing; else the
\* draw list fails, or at most one of the pages it would read fails.
NetFor(f, tdy, date_from, date_to, site) ==
    LET req == RequestOf(f, tdy, date_from, date_to) IN
    IF req = << >> THEN {QuietNet}
    ELSE {[listFails |-> TRUE, failedPage |-> 0]}
         \cup {[listFails |-> FALSE, failedPage |-> p] :
                 p \in {0} \cup {d \in Dates : site[d] # NoDraw /\ req[1] <= d /\ d <= req[2]}}

\* What the disk can do to the call: nothing unless it reaches save_cache.
DiskFor(f, tdy, date_from, date_to, site, net) ==
    LET req == RequestOf(f, tdy, date_from, date_to) IN
    IF req = << >> THEN {"ok"}
    ELSE LET got == fetch_fd_results(site, req[1], req[2], net) IN
         IF got.raised \/ DfEmpty(got.df) THEN {"ok"} ELSE DiskSet

\* A run of the program calls fetch_with_cache(date_from, date_to, cache_file).
Call ==
    \E date_from \in Dates, date_to \in Dates :
        /\ call = NoCall
        /\ date_from <= date_to
        /\ \E net \in NetFor(file, today, date_from, date_to, upstream) :
           \E disk \in DiskFor(file, today, date_from, date_to, upstream, net) :
               LET r == fetch_with_cache(file, today, date_from, date_to, upstream, net, disk)
               IN  /\ file' = r.file
                   /\ call' = r.call
        /\ UNCHANGED <<today, upstream, pureVars, bt>>

\* The run calls fetch_with_cache again at once, with the same range: the day and
\* the site are as they were, the file is as the first call left it.
CallAgain ==
    /\ call # NoCall
    /\ call.outcome = "returned"
    /\ call.prior = NoPrior
    /\ \E net \in NetFor(file, today, call.date_from, call.date_to, upstream) :
       \E disk \in DiskFor(file, today, call.date_from, call.date_to, upstream, net) :
           LET r == fetch_with_cache(file, today, call.date_from, call.date_to, upstream, net, disk)
               first == [path |-> call.path, requests |-> call.requests, ret |-> call.ret,
                         persisted |-> /\ call.path \in {"miss", "merge"}
                                       /\ call.disk = "ok"
                                       /\ ~DfEmpty(call.fetched.df)]
           IN  /\ file' = r.file
               /\ call' = [r.call EXCEPT !.prior = first]
    /\ UNCHANGED <<today, upstream, pureVars, bt>>

\* The run ends, with the frame it got, the exception or the crash; the file stays.
Exit ==
    /\ call # NoCall
    /\ call' = NoCall
    /\ UNCHANGED <<today, upstream, file, pureVars, bt>>

Next == Tick \/ Publish \/ Call \/ CallAgain \/ Exit

Spec == Init /\ [][Next]_vars

----------------------------------------------------------------------------
(* Pure functions applied to bounded inputs *)

\* Every frame fetch_fd_results can return for the whole calendar.
FetchedFrames ==
    {FetchLoop(site, DrawList(site), 1, MaxDay, 0) : site \in [Dates -> PageSet \cup {NoDraw}]}

\* The frames a cache file can hold: a fetched frame (first save), or a frame that
\* went through a merge before.
CacheFrames ==
    LET fetched == {df \in FetchedFrames : ~DfEmpty(df)}
    IN  fetched \cup {Combine(df, EmptyDf) : df \in fetched}

PureInit ==
    /\ CacheIdle
    /\ PureIdle
    /\ bt = BtIdle

\* The merge step on a cached frame and a newly fetched frame.
ApplyMerge ==
    /\ pFn = "none"
    /\ \E cached_df \in CacheFrames, new_df \in CacheFrames :
        /\ pFn' = "merge"
        /\ pIn' = <<cached_df, new_df>>
        /\ pOut' = MergeStep(cached_df, new_df)
    /\ UNCHANGED <<cacheVars, bt>>

\* The numbers the filter is tried on, and the histories: up to MaxRows rows, one
\* per draw, of a first prize or a starter prize.
FilterNumbers == {N1234, N5678, N0567}

FilterRows == {Row(0, num, type) : num \in FilterNumbers,
                                   type \in {FD_FIRST_PRIZE_CLASS, FD_STARTER_PRIZE_CLASS}}

Dated(rows) == [i \in 1..Len(rows) |-> [rows[i] EXCEPT !.date = i]]

FilterFrames == UNION {{Dated(rows) : rows \in [1..n -> FilterRows]} : n \in 0..MaxRows}

\* Of the 6-month frame the filter reads the numbers only: its rows are all of
\* one category.
RecentFrames ==
    {df \in FilterFrames : \A i \in 1..Len(df), j \in 1..Len(df) : df[i].type = df[j].type}

ApplyFilter ==
    /\ pFn = "none"
    /\ \E numbers \in SUBSET FilterNumbers,
          past_6_months_df \in RecentFrames, past_1_year_df \in FilterFrames :
        /\ pFn' = "filter"
        /\ pIn' = <<numbers, past_6_months_df, past_1_year_df>>
        /\ pOut' = filter_numbers_by_history(numbers, past_6_months_df, past_1_year_df)
    /\ UNCHANGED <<cacheVars, bt>>

\* The lists of selected digits handed to the generator: up to MaxDigits distinct
\* digits in ascending order, and a digit listed twice.
DigitLists ==
    {DigitsWhere(D, 1) : D \in {E \in SUBSET DigitChars : Cardinality(E) <= MaxDigits}}
    \cup {<<d, d>> : d \in DigitChars}

ApplyGenerate ==
    /\ pFn = "none"
    /\ \E first_digits \in DigitLists :
        /\ pFn' = "generate"
        /\ pIn' = <<first_digits>>
        /\ pOut' = generate_numbers_from_first_digits(first_digits)
    /\ UNCHANGED <<cacheVars, bt>>

\* Count vectors over the ten digits: every digit at a base count but two.
CountVectors ==
    {[d \in DigitChars |-> IF d = d1 THEN v1 ELSE IF d = d2 THEN v2 ELSE base] :
        d1 \in DigitChars, d2 \in DigitChars,
        v1 \in 0..MaxCount, v2 \in 0..MaxCount, base \in 0..MaxCount}

\* Count vectors in two levels: the digits below a cut at one count, the digits
\* from the cut on at another.
SplitVectors ==
    {[d \in DigitChars |-> IF IntOfDigit(d) < cut THEN low ELSE high] :
        cut \in 0..10, low \in 0..MaxCount, high \in 0..MaxCount}

\* The top-k selection on the smoothed probabilities of one count vector, alpha 1.
ApplyTopK ==
    /\ pFn = "none"
    /\ \E digit_counts \in CountVectors \cup SplitVectors, top_k \in 0..10 :
        LET probabilities == bayesian_smoothing(digit_counts, 1) IN
        /\ pFn' = "top_k"
        /\ pIn' = <<probabilities, top_k>>
        /\ pOut' = select_digits_by_probability(probabilities, top_k)
    /\ UNCHANGED <<cacheVars, bt>>

\* select_low_occurrence_digits with a threshold given by the caller.
ApplyLowOccurrence ==
    /\ pFn = "none"
    /\ \E digit_counts \in CountVectors \cup SplitVectors, threshold \in 0..MaxCount :
        /\ pFn' = "low_occurrence"
        /\ pIn' = <<digit_counts, threshold>>
        /\ pOut' = select_low_occurrence_digits(digit_counts, Threshold(threshold))
    /\ UNCHANGED <<cacheVars, bt>>

\* The two selectors of the default pipeline on one count vector.
ApplySelect ==
    /\ pFn = "none"
    /\ \E digit_counts \in CountVectors :
        /\ pFn' = "select"
        /\ pIn' = <<digit_counts>>
        /\ pOut' = [priority_zero |-> select_digits_priority_zero(digit_counts),
                    low_occurrence |-> select_low_occurrence_digits(digit_counts, NoThreshold)]
    /\ UNCHANGED <<cacheVars, bt>>

\* Prize strings as the site may publish them: well-formed, empty, blank, not a
\* number, a number after blanks, and numbers of two and of five digits.
PrizeStrings ==
    {N1234, N0567, << >>, <<" ", " ">>, <<"N", "/", "A">>, <<" ", "1", "2">>,
     <<"1", "2">>, <<"1", "2", "3", "4", "5">>}

AnalyzerRows == {Row(0, num, type) : num \in PrizeStrings,
                                     type \in {FD_FIRST_PRIZE_CLASS, FD_STARTER_PRIZE_CLASS}}

AnalyzerFrames == UNION {{Dated(rows) : rows \in [1..n -> AnalyzerRows]} : n \in 0..MaxRows}

\* A weights map that names the first prize only, at 2.0
FirstPrizeDouble == [t \in {FD_FIRST_PRIZE_CLASS} |-> 20]

\* The analyses of the pipelines on one frame.
ApplyAnalyze ==
    /\ pFn = "none"
    /\ \E df \in AnalyzerFrames, prize_types \in {AllPrizeTypes, PrizeTypes(TOP_3_PRIZE_TYPES)},
          weights \in {DEFAULT_PRIZE_WEIGHTS, FirstPrizeDouble} :
        /\ pFn' = "analyze"
        /\ pIn' = <<df, prize_types, weights>>
        /\ pOut' = [extract |-> extract_first_digits(df, prize_types),
                    counts |-> analyze_first_digit_by_prize_type(df, prize_types),
                    weighted |-> analyze_first_digit_weighted(df, weights)]
    /\ UNCHANGED <<cacheVars, bt>>

\* Smoothing of one count vector; counts and alpha are in the same unit.
ApplySmooth ==
    /\ pFn = "none"
    /\ \E digit_counts \in CountVectors, alpha \in 1..MaxAlpha :
        /\ pFn' = "smooth"
        /\ pIn' = <<digit_counts, alpha>>
        /\ pOut' = bayesian_smoothing(digit_counts, alpha)
    /\ UNCHANGED <<cacheVars, bt>>

\* The frames the 1-year cache hands to main_improved: up to MaxDraws draws, as
\* fetched or as merged, the newest first prize possibly published blank.
MainHistories ==
    UNION {{HistoryFrom(1, n_draws, base, odd_day, "blank") :
                base \in {"fetched", "merged"}, odd_day \in {0, n_draws}} :
           n_draws \in 0..MaxDraws}

\* A draw whose three top prizes start with digits 4 apart, with or without a
\* starter prize starting with 7 and a consolation prize starting with 8.
SpreadRows(d, extras) ==
    <<Row(d, FirstPrizeFor(d), FD_FIRST_PRIZE_CLASS),
      Row(d, FirstPrizeFor(d + 4), FD_SECOND_PRIZE_CLASS),
      Row(d, FirstPrizeFor(d + 8), FD_THIRD_PRIZE_CLASS)>>
    \o (IF extras THEN <<Row(d, FirstPrizeFor(7), FD_STARTER_PRIZE_CLASS),
                          Row(d, FirstPrizeFor(8), FD_CONSOLATION_PRIZE_CLASS)>>
        ELSE << >>)

\* n_draws such draws as fetched, the newest first
RECURSIVE SpreadHistory(_, _)
SpreadHistory(n_draws, extras) ==
    IF n_draws = 0 THEN << >>
    ELSE SpreadRows(n_draws, extras) \o SpreadHistory(n_draws - 1, extras)

\* The frames the 6-month cache hands to main_original.
OriginalHistories ==
    MainHistories \cup {SpreadHistory(n_draws, extras) : n_draws \in 0..MaxDraws,
                                                         extras \in BOOLEAN}

ApplyMainOriginal ==
    /\ pFn = "none"
    /\ \E past_6_months_df \in OriginalHistories :
        /\ pFn' = "main_original"
        /\ pIn' = <<past_6_months_df>>
        /\ pOut' = main_original(past_6_months_df)
    /\ UNCHANGED <<cacheVars, bt>>

\* One run of main_improved; alpha is the default 1.0.  The window sizes are those
\* of the backtest and, like the default [12, 52], a list whose largest window the
\* history cannot fill.
ApplyMainImproved ==
    /\ pFn = "none"
    /\ \E historical_df \in MainHistories,
          use_window_sizes \in WindowSizeLists \cup {<<MaxWindow, MaxDraws>>},
          enable_backtest \in BOOLEAN, top_k \in {1, 3}, plots \in {"saved", "raised"} :
        /\ plots = "raised" =>
                /\ ~DfEmpty(historical_df)
                /\ AnalyseWindows(historical_df, use_window_sizes, 1, top_k, 10, << >>) = << >>
        /\ pFn' = "main_improved"
        /\ pIn' = <<historical_df, use_window_sizes, enable_backtest, top_k, plots>>
        /\ pOut' = main_improved(historical_df, use_window_sizes, enable_backtest, top_k, 10, plots)
    /\ UNCHANGED <<cacheVars, bt>>

\* Smoothing of one count vector under two values of alpha, the smaller first.
ApplySmoothPair ==
    /\ pFn = "none"
    /\ \E digit_counts \in CountVectors, alpha1 \in 1..MaxAlpha, alpha2 \in 2..(MaxAlpha + 1) :
        /\ alpha1 < alpha2
        /\ pFn' = "smooth_pair"
        /\ pIn' = <<digit_counts, alpha1, alpha2>>
        /\ pOut' = [first |-> bayesian_smoothing(digit_counts, alpha1),
                    second |-> bayesian_smoothing(digit_counts, alpha2)]
    /\ UNCHANGED <<cacheVars, bt>>

PureNext ==
    \/ ApplyMerge \/ ApplyFilter \/ ApplyGenerate \/ ApplySelect \/ ApplyAnalyze \/ ApplySmooth
    \/ ApplyMainImproved \/ ApplyTopK \/ ApplyLowOccurrence \/ ApplyMainOriginal
    \/ ApplySmoothPair

PureSpec == PureInit /\ [][PureNext]_vars

----------------------------------------------------------------------------
(* The backtest state machine *)

BtInit ==
    /\ CacheIdle
    /\ PureIdle
    /\ \E df \in Histories, window_sizes \in WindowSizeLists, top_k_list \in TopKLists :
          bt = BtRecord("start", df, window_sizes, top_k_list)

\* The check on the number of draws: return {} or go on to the first window size.
BtEnter ==
    /\ bt.pc = "start"
    /\ bt' = IF NotEnoughDraws(Len(UniqueDates(bt.df)), bt.window_sizes)
             THEN [bt EXCEPT !.pc = "done", !.returned = "refused"]
             ELSE [bt EXCEPT !.pc = "window", !.w = 1]
    /\ UNCHANGED <<cacheVars, pureVars>>

\* for window_size in window_sizes: fresh window_results, i = window_size
BtOpenWindow ==
    /\ bt.pc = "window"
    /\ bt.w <= Len(bt.window_sizes)
    /\ bt' = [bt EXCEPT !.pc = "iter",
                        !.i = bt.window_sizes[bt.w],
                        !.window_results =
                            NewWindowResults(bt.window_sizes[bt.w], bt.top_k_list)]
    /\ UNCHANGED <<cacheVars, pureVars>>

\* One pass of for i in range(window_size, len(unique_dates)).
BtIterate ==
    /\ bt.pc = "iter"
    /\ bt.i < Len(UniqueDates(bt.df))
    /\ LET r == Iteration(bt.df, UniqueDates(bt.df), bt.window_sizes[bt.w], bt.i,
                          bt.top_k_list, bt.weights, bt.alpha, bt.window_results)
       IN  bt' = IF r.step = "index_error"
                 THEN [bt EXCEPT !.pc = "done", !.returned = "raised",
                                 !.step = r.step, !.seen = r.seen]
                 ELSE [bt EXCEPT !.i = @ + 1, !.step = r.step, !.seen = r.seen,
                                 !.window_results = r.window_results]
    /\ UNCHANGED <<cacheVars, pureVars>>

\* The loop over i is over: the accuracy rates, results[window_size] = window_results.
BtCloseWindow ==
    /\ bt.pc = "iter"
    /\ bt.i >= Len(UniqueDates(bt.df))
    /\ LET closed == [bt.window_results EXCEPT !.accuracy = WithRates(@)]
       IN  bt' = [bt EXCEPT !.pc = "window", !.w = @ + 1,
                            !.window_results = closed,
                            !.divisions = @ + Divisions(closed.accuracy),
                            !.results = DictSet(@, closed)]
    /\ UNCHANGED <<cacheVars, pureVars>>

\* return results
BtReturn ==
    /\ bt.pc = "window"
    /\ bt.w > Len(bt.window_sizes)
    /\ bt' = [bt EXCEPT !.pc = "done", !.returned = "results"]
    /\ UNCHANGED <<cacheVars, pureVars>>

BtNext == BtEnter \/ BtOpenWindow \/ BtIterate \/ BtCloseWindow \/ BtReturn

BacktestSpec == BtInit /\ [][BtNext]_vars

----------------------------------------------------------------------------
(* Logical keys of records *)

\* The position of row i among the rows of its date and category.
PositionInCategory(df, i) ==
    Cardinality({j \in 1..i : df[j].date = df[i].date /\ df[j].type = df[i].type})

KeyOf(df, i) == <<df[i].date, df[i].type, PositionInCategory(df, i)>>

\* The records of a frame, each under its logical key.
Records(df) == {[key |-> KeyOf(df, i), num |-> df[i].num] : i \in 1..Len(df)}

Keys(df) == {KeyOf(df, i) : i \in 1..Len(df)}

\* Union with last-write-wins on the logical key.
LastWriteWins(cached_df, new_df) ==
    Records(new_df) \cup {r \in Records(cached_df) : r.key \notin Keys(new_df)}

\* Every record the site holds for the dates date_from..date_to.
Held(site, date_from, date_to) ==
    UNION {Records(PageRows(d, site[d])) :
             d \in {x \in Dates : site[x] # NoDraw /\ date_from <= x /\ x <= date_to}}

InRange(df, date_from, date_to) ==
    \A i \in 1..Len(df) : date_from <= df[i].date /\ df[i].date <= date_to

Called == call.path # "none"

\* The cached frame the call loaded, empty when it loaded none.
CachedBefore == IF call.before.kind = "pickle" THEN call.before.df ELSE EmptyDf

----------------------------------------------------------------------------
(* Claims *)

\* C1: after a merge that was saved, the persisted records are the union of the
\* cached and the fetched records, last-write-wins on (date, category, position).
C1_MergeIsKeyedUnion ==
    (call.path = "merge" /\ call.outcome = "returned" /\ call.disk = "ok")
    => /\ file.kind = "pickle"
       /\ Records(file.df) = LastWriteWins(CachedBefore, call.fetched.df)

\* C2: when the fetch succeeds, the call returns every record the site holds for
\* [date_from, date_to] and no record dated outside it.
C2_ReturnsWholeRange ==
    (call.outcome = "returned" /\ ~call.net.listFails /\ call.net.failedPage = 0)
    => /\ Held(call.site, call.date_from, call.date_to) \subseteq Records(call.ret)
       /\ InRange(call.ret, call.date_from, call.date_to)

\* C3: a fetch that raises is not propagated: the call returns the cached records
\* of the range (none without a cache).
C3_FetchErrorFallsBack ==
    call.fetched.raised
    => /\ call.outcome = "returned"
       /\ call.ret = FilterRange(CachedBefore, call.date_from, call.date_to)

\* C4: a crash during save_cache leaves the previous cache version in place, and
\* the file never holds an empty or partly written version.
C4_CrashKeepsPreviousVersion ==
    /\ call.outcome = "crashed" => file = call.before
    /\ ~Unreadable(file)

\* C5: with the cache's maximum date >= today the call asks the site for nothing,
\* leaves the file as it was and returns the cached records of the range.
C5_UpToDateUsesCache ==
    (Called /\ ~DfEmpty(CachedBefore) /\ IndexMax(CachedBefore) >= call.today)
    => /\ call.requests = << >>
       /\ call.outcome = "returned"
       /\ file = call.before
       /\ call.ret = FilterRange(CachedBefore, call.date_from, call.date_to)

C5_Witness ==
    /\ Called /\ ~DfEmpty(CachedBefore) /\ IndexMax(CachedBefore) >= call.today
    /\ call.ret # EmptyDf
    /\ Len(call.ret) < Len(CachedBefore)

\* C6: merging a cache with a copy of itself gives the same record set and the
\* same watermark.
C6_MergeWithSelfIsIdentity ==
    (pFn = "merge" /\ pIn[1] = pIn[2])
    => /\ Records(pOut.df) = Records(pIn[1])
       /\ pOut.last_date = IndexMax(pIn[1])

\* C7: when the fetch returns no rows the call returns the cached records of the
\* range (none without a cache), raises nothing and saves nothing.
C7_EmptyFetchFallsBack ==
    (call.requests # << >> /\ ~call.fetched.raised /\ DfEmpty(call.fetched.df))
    => /\ call.outcome = "returned"
       /\ call.ret = FilterRange(CachedBefore, call.date_from, call.date_to)
       /\ file = call.before

C7_Witness ==
    /\ call.requests # << >> /\ ~call.fetched.raised /\ DfEmpty(call.fetched.df)
    /\ call.ret # EmptyDf
    /\ Len(call.ret) < Len(CachedBefore)

\* C8: an unreadable cache file is loaded as absent without raising, and the call
\* goes on as a cache miss: it asks for the whole range and saves what it gets.
C8_UnreadableIsMiss ==
    (Called /\ Unreadable(call.before))
    => /\ call.path = "miss"
       /\ call.requests = <<(<<call.date_from, call.date_to>>)>>
       /\ (call.outcome = "raised" => call.fetched.raised)
       /\ (call.outcome = "returned" => call.ret = call.fetched.df)
       /\ (call.outcome = "returned" /\ ~DfEmpty(call.fetched.df) /\ call.disk = "ok")
            => file = PickleFile(call.fetched.df, IndexMax(call.fetched.df))
       /\ (call.fetched.raised \/ DfEmpty(call.fetched.df)) => file = call.before

C8_Witness ==
    /\ Called /\ Unreadable(call.before)
    /\ call.outcome = "returned"
    /\ file.kind = "pickle"
    /\ Len(file.df) > 3

\* The distinct draw dates of a frame in ascending order are d_0, d_1, ...
NthDate(df, j) ==
    CHOOSE d \in IndexDates(df) : Cardinality({e \in IndexDates(df) : e < d}) = j

\* C9: at test index i with window size W the training set is exactly the records
\* dated d_{i-W}..d_{i-1}: W distinct dates, all before the test date d_i.
C9_TrainingWindowIsPast ==
    bt.step # "none"
    => LET W == bt.seen.window_size
           i == bt.seen.i
           window == {NthDate(bt.df, j) : j \in (i - W)..(i - 1)}
       IN  /\ W <= i /\ i <= Cardinality(IndexDates(bt.df)) - 1
           /\ bt.seen.test_date = NthDate(bt.df, i)
           /\ bt.seen.train_df = BoolMask(bt.df, {k \in 1..Len(bt.df) : bt.df[k].date \in window})
           /\ IndexDates(bt.seen.train_df) = window
           /\ Cardinality(IndexDates(bt.seen.train_df)) = W
           /\ \A k \in 1..Len(bt.seen.train_df) : bt.seen.train_df[k].date < bt.seen.test_date

C9_Witness ==
    /\ bt.step = "tested"
    /\ bt.seen.window_size = 2
    /\ bt.seen.i > bt.seen.window_size
    /\ Len(bt.seen.train_df) > 2
    /\ bt.seen.test_date < Cardinality(IndexDates(bt.df))

\* C10: with fewer than max(window_sizes) + 10 distinct draw dates the backtest
\* returns an empty result: no window is opened, nothing is counted or divided.
C10_RefusesShortHistory ==
    (bt.pc \notin {"idle", "start"}
       /\ Cardinality(IndexDates(bt.df)) < SeqMax(bt.window_sizes) + 10)
    => /\ bt.pc = "done"
       /\ bt.returned = "refused"
       /\ bt.results = << >>
       /\ bt.step = "none"
       /\ bt.window_results = NewWindowResults(0, << >>)
       /\ bt.divisions = 0

C10_Witness ==
    /\ bt.returned = "refused"
    /\ Cardinality(IndexDates(bt.df)) = 5
    /\ bt.window_sizes = <<2>>

\* C11: with top_k = 10 every counted test is a hit: in the open window and in every
\* finished window correct = total, and a reported rate is total/total, exactly 1.
TopTenExact(window_results) ==
    10 \in DOMAIN window_results.accuracy
    => LET acc == window_results.accuracy[10]
       IN  /\ acc.correct = acc.total
           /\ acc.rate # NoRate => (acc.rate.num = acc.rate.den /\ acc.rate.den > 0)

C11_TopTenAlwaysHits ==
    /\ TopTenExact(bt.window_results)
    /\ \A k \in 1..Len(bt.results) :
          /\ TopTenExact(bt.results[k])
          /\ (10 \in DOMAIN bt.results[k].accuracy /\ bt.results[k].accuracy[10].total > 0)
               => bt.results[k].accuracy[10].rate # NoRate

C11_Witness ==
    /\ bt.returned = "results"
    /\ bt.top_k_list = <<10>>
    /\ Len(bt.results) = 2
    /\ \A k \in 1..Len(bt.results) :
          /\ bt.results[k].accuracy[10].total > 1
          /\ bt.results[k].accuracy[10].rate = [num |-> bt.results[k].accuracy[10].total,
                                                 den |-> bt.results[k].accuracy[10].total]

\* The four lists filter_numbers_by_history returned, as sets.
Kept == SeqRange(pOut.filtered_numbers)
Excluded6Mo == SeqRange(pOut.appeared_in_6_months)
ExcludedTop3 == SeqRange(pOut.appeared_in_top3_1year)
ExcludedMulti == SeqRange(pOut.appeared_multiple_1year)

InHistory(df, num) == \E i \in 1..Len(df) : df[i].num = num

InTop3(df, num) ==
    \E i \in 1..Len(df) :
        /\ df[i].num = num
        /\ df[i].type \in {FD_FIRST_PRIZE_CLASS, FD_SECOND_PRIZE_CLASS, FD_THIRD_PRIZE_CLASS}

\* C12: the kept list and the three exclusion lists are pairwise disjoint and
\* together are the candidate set; a candidate of the 6-month history is reported
\* in the 6-month list only.  Candidates {1234, 5678}, 1234 in the 6-month history,
\* 5678 a Top-3 number of the year: [1234], [5678], nothing kept.
C12_ExclusionsPartitionCandidates ==
    pFn = "filter"
    => /\ Kept \cap Excluded6Mo = {} /\ Kept \cap ExcludedTop3 = {} /\ Kept \cap ExcludedMulti = {}
       /\ Excluded6Mo \cap ExcludedTop3 = {} /\ Excluded6Mo \cap ExcludedMulti = {}
       /\ ExcludedTop3 \cap ExcludedMulti = {}
       /\ Kept \cup Excluded6Mo \cup ExcludedTop3 \cup ExcludedMulti = pIn[1]
       /\ \A num \in pIn[1] :
             InHistory(pIn[2], num)
             => num \in Excluded6Mo /\ num \notin ExcludedTop3 /\ num \notin ExcludedMulti
       /\ (pIn[1] = {N1234, N5678} /\ InHistory(pIn[2], N1234) /\ ~InHistory(pIn[2], N5678)
              /\ InTop3(pIn[3], N5678))
            => /\ pOut.appeared_in_6_months = <<N1234>>
               /\ pOut.appeared_in_top3_1year = <<N5678>>
               /\ pOut.appeared_multiple_1year = << >>
               /\ pOut.filtered_numbers = << >>

C12_Witness ==
    /\ pFn = "filter"
    /\ pIn[1] = {N1234, N5678}
    /\ pIn[2] = <<Row(1, N1234, FD_STARTER_PRIZE_CLASS)>>
    /\ pIn[3] = <<Row(1, N5678, FD_FIRST_PRIZE_CLASS), Row(2, N1234, FD_FIRST_PRIZE_CLASS)>>
    /\ pOut.appeared_in_6_months = <<N1234>>
    /\ pOut.appeared_in_top3_1year = <<N5678>>
    /\ pOut.filtered_numbers = << >>

\* C13: the kept numbers are the candidates that are nowhere in the 6-month
\* history, in no Top-3 record of the 1-year history and at most once in the 1-year
\* history; an empty 1-year history removes nothing and reports nothing.
C13_KeptIsUnexcluded ==
    pFn = "filter"
    => /\ Kept = {num \in pIn[1] :
                    /\ ~InHistory(pIn[2], num)
                    /\ ~InTop3(pIn[3], num)
                    /\ Cardinality({i \in 1..Len(pIn[3]) : pIn[3][i].num = num}) <= 1}
       /\ Len(pOut.filtered_numbers) = Cardinality(Kept)
       /\ pIn[3] = << >>
            => /\ pOut.appeared_in_top3_1year = << >>
               /\ pOut.appeared_multiple_1year = << >>
               /\ Kept = {num \in pIn[1] : ~InHistory(pIn[2], num)}

C13_Witness ==
    /\ pFn = "filter"
    /\ pIn[1] = {N1234, N5678, N0567}
    /\ pIn[2] = << >>
    /\ pIn[3] = <<Row(1, N1234, FD_STARTER_PRIZE_CLASS), Row(2, N1234, FD_STARTER_PRIZE_CLASS)>>
    /\ pOut.filtered_numbers = <<N0567, N5678>>
    /\ pOut.appeared_multiple_1year = <<N1234>>

\* The four-character decimal form of num, 0 <= num <= 9999, digit by digit.
FourChars(num) ==
    <<DigitSeq[(num \div 1000) + 1], DigitSeq[((num \div 100) % 10) + 1],
      DigitSeq[((num \div 10) % 10) + 1], DigitSeq[(num % 10) + 1]>>

\* C14: the generated set is the four-character zero-padded forms of d*1000 ..
\* d*1000+999 for the digits d given: 1000 strings per digit, each of length 4
\* and starting with its digit.
C14_GeneratesThousandPerDigit ==
    pFn = "generate"
    => LET D == {k \in 0..9 : DigitSeq[k + 1] \in SeqRange(pIn[1])}
       IN  /\ pOut = {FourChars(num) : num \in {n \in 0..9999 : (n \div 1000) \in D}}
           /\ Cardinality(pOut) = 1000 * Cardinality(D)
           /\ \A str \in pOut : Len(str) = 4 /\ str[1] \in SeqRange(pIn[1])

C14_Witness ==
    /\ pFn = "generate"
    /\ pIn[1] = <<"0", "2">>
    /\ <<"0", "0", "0", "0">> \in pOut
    /\ <<"0", "9", "9", "9">> \in pOut
    /\ <<"2", "0", "0", "0">> \in pOut
    /\ <<"1", "0", "0", "0">> \notin pOut
    /\ Cardinality(pOut) = 2000

ZeroCountDigits(digit_counts) == {d \in DigitChars : digit_counts[d] = 0}

\* C15: select_digits_priority_zero returns the digits of count 0 when there is
\* one, and what select_low_occurrence_digits returns for the same counts when
\* there is none.
C15_PriorityZeroOrFallback ==
    pFn = "select"
    => IF ZeroCountDigits(pIn[1]) # {}
       THEN /\ SeqRange(pOut.priority_zero) = ZeroCountDigits(pIn[1])
            /\ Len(pOut.priority_zero) = Cardinality(ZeroCountDigits(pIn[1]))
       ELSE pOut.priority_zero = pOut.low_occurrence

C15_Witness ==
    /\ pFn = "select"
    /\ pOut.priority_zero = <<"3">>
    /\ pOut.low_occurrence = <<"3", "7">>

\* C16 as stated: without a zero-count digit the priority-zero selection is a
\* strict subset of the low-occurrence selection.
C16_StrictSubset ==
    (pFn = "select" /\ ZeroCountDigits(pIn[1]) = {})
    => /\ SeqRange(pOut.priority_zero) \subseteq SeqRange(pOut.low_occurrence)
       /\ SeqRange(pOut.priority_zero) # SeqRange(pOut.low_occurrence)

\* C16, amended: without a zero-count digit the priority-zero selection is a
\* subset of the low-occurrence selection that leaves none of it out (the two
\* selections are the same set), and it is not empty.
C16_SubsetNotStrict ==
    (pFn = "select" /\ ZeroCountDigits(pIn[1]) = {})
    => /\ SeqRange(pOut.priority_zero) \subseteq SeqRange(pOut.low_occurrence)
       /\ SeqRange(pOut.low_occurrence) \ SeqRange(pOut.priority_zero) = {}
       /\ SeqRange(pOut.priority_zero) # {}

C16_Witness ==
    /\ pFn = "select"
    /\ ZeroCountDigits(pIn[1]) = {}
    /\ pOut.low_occurrence = <<"0", "1", "2", "3", "4", "6", "7", "8", "9">>
    /\ pOut.priority_zero = pOut.low_occurrence

\* A prize string that is empty, blank, or whose first character after the blanks
\* is not a digit.
Malformed(str) == Strip(str) = << >> \/ ~IsDigit(Strip(str)[1])

\* C17: a test date whose first prize is malformed is skipped by the backtest:
\* nothing is raised and no tally changes.
C17_MalformedIsSkipped ==
    bt.step # "none"
    => LET first_prize_df == FirstPrizeOn(bt.df, bt.seen.test_date)
       IN  (first_prize_df # << >> /\ Malformed(first_prize_df[1].num))
           => bt.step = "not_a_digit" /\ bt.returned # "raised"

\* The sum of one field over the ten digits, written out.
TenSum(f) ==
    f["0"] + f["1"] + f["2"] + f["3"] + f["4"] + f["5"] + f["6"] + f["7"] + f["8"] + f["9"]

\* C18: probabilities[d] = (counts[d] + alpha) / (total + 10*alpha), each above 0,
\* and the ten numerators add up to the denominator, so the probabilities sum to 1.
C18_SmoothedIsDistribution ==
    pFn = "smooth"
    => LET digit_counts == pIn[1]
           alpha == pIn[2]
           total == TenSum(digit_counts)
       IN  /\ DOMAIN pOut = DigitChars
           /\ \A d \in DigitChars :
                 /\ pOut[d].num = digit_counts[d] + alpha
                 /\ pOut[d].den = total + 10 * alpha
                 /\ pOut[d].num > 0 /\ pOut[d].den > 0
           /\ TenSum([d \in DigitChars |-> pOut[d].num]) = pOut["0"].den

C18_Witness ==
    /\ pFn = "smooth"
    /\ pIn[1] = ZeroCounts
    /\ pIn[2] = 2
    /\ \A d \in DigitChars : pOut[d] = [num |-> 2, den |-> 20]

\* A frame in ascending date order.
Ascending(df) == \A i \in 1..Len(df), j \in 1..Len(df) : i < j => df[i].date <= df[j].date

\* The call wrote the cache file.
Persisted ==
    /\ call.path \in {"miss", "merge"}
    /\ call.outcome = "returned"
    /\ call.disk = "ok"
    /\ ~DfEmpty(call.fetched.df)

\* C19: after a call that persisted a cache (first fetch or merge) the persisted
\* records are in ascending date order and no two have the same logical key.
C19_PersistedIsOrdered ==
    Persisted
    => /\ file.kind = "pickle"
       /\ Ascending(file.df)
       /\ Cardinality(Records(file.df)) = Len(file.df)

\* C20: a non-empty cache older than today makes the call fetch once, the range
\* [max(max_cached_date + 1, date_from), date_to]; nothing dated on or before
\* max_cached_date is asked for or fetched again.
C20_FetchesOnlyAfterCache ==
    (Called /\ ~DfEmpty(CachedBefore) /\ IndexMax(CachedBefore) < call.today)
    => LET max_cached_date == IndexMax(CachedBefore)
           lo == IF max_cached_date + 1 > call.date_from THEN max_cached_date + 1
                 ELSE call.date_from
       IN  /\ call.requests = <<(<<lo, call.date_to>>)>>
           /\ lo > max_cached_date
           /\ \A i \in 1..Len(call.fetched.df) : call.fetched.df[i].date > max_cached_date

C20_Witness ==
    /\ Called /\ ~DfEmpty(CachedBefore) /\ IndexMax(CachedBefore) < call.today
    /\ call.date_from <= IndexMax(CachedBefore)
    /\ call.requests = <<(<<IndexMax(CachedBefore) + 1, call.date_to>>)>>
    /\ ~DfEmpty(call.fetched.df)

\* The call follows at once a call of the same run that fetched and persisted.
FollowsPersisted == call.prior.persisted

\* C21 as stated: a call that follows at once a call that fetched and persisted,
\* with the same range on the same day, asks the site for nothing and returns the
\* same records.
C21_RepeatedCallUsesCache ==
    FollowsPersisted
    => /\ call.requests = << >>
       /\ call.outcome = "returned"
       /\ call.ret = call.prior.ret

\* C21, amended: the same, when the newest record the first call persisted is
\* dated today or later.
C21_RepeatedCallUsesFreshCache ==
    (FollowsPersisted /\ IndexMax(CachedBefore) >= call.today)
    => /\ call.requests = << >>
       /\ call.outcome = "returned"
       /\ call.ret = call.prior.ret
       /\ file = call.before

C21_Witness ==
    /\ FollowsPersisted /\ IndexMax(CachedBefore) >= call.today
    /\ call.prior.path = "merge"
    /\ call.requests = << >>
    /\ call.ret = call.prior.ret
    /\ call.ret # EmptyDf
    /\ Len(call.ret) < Len(CachedBefore)

\* C22: when the frame has fewer distinct draw dates than a requested window size,
\* main_improved skips that window and ends with an explicit result: no exception
\* escapes, also when the skipped window is the largest one and every analysed
\* window tests as uniform.
SkippedWindows ==
    {pIn[2][k] : k \in {j \in 1..Len(pIn[2]) : Len(UniqueDates(pIn[1])) < pIn[2][j]}}

C22_SkippedWindowEndsExplicitly ==
    (pFn = "main_improved" /\ SkippedWindows # {})
    => /\ \A w \in SkippedWindows : ~HasKey(pOut.window_analyses, w)
       /\ pOut.outcome # "raised"

\* C23: a record whose prize string is not exactly 4 characters long is skipped by
\* the analyser: the unweighted and the weighted counts are those of the records
\* with 4 characters alone.
FourCharRows(df) == BoolMask(df, {i \in 1..Len(df) : Len(df[i].num) = 4})

C23_WrongLengthIsSkipped ==
    (pFn = "analyze" /\ ~pOut.counts.raised)
    => /\ pOut.counts.digit_counts =
              analyze_first_digit_by_prize_type(FourCharRows(pIn[1]), pIn[2]).digit_counts
       /\ pOut.weighted = analyze_first_digit_weighted(FourCharRows(pIn[1]), pIn[3])

\* C28: analyze_first_digit_weighted returns for each digit d the sum, over the
\* records whose prize string (blanks around it removed) starts with d, of the
\* weight of the record's category, 1.0 for a category the map does not name:
\* under the default weights 1.0 for a Top-3 record and 0.3 for a starter or
\* consolation record; records of other digits add nothing to counts[d].
\* Counts are in tenths.
StartingWith(df, d) ==
    {i \in 1..Len(df) : Strip(df[i].num) # << >> /\ Strip(df[i].num)[1] = d}

OfTypes(df, rows, types) == Cardinality({i \in rows : df[i].type \in types})

C28_WeightedCountIsWeightSum ==
    pFn = "analyze" =>
        \A d \in DigitChars :
            LET rows == StartingWith(pIn[1], d)
                top3 == {FD_FIRST_PRIZE_CLASS, FD_SECOND_PRIZE_CLASS, FD_THIRD_PRIZE_CLASS}
                others == {FD_STARTER_PRIZE_CLASS, FD_CONSOLATION_PRIZE_CLASS}
            IN  pOut.weighted[d] =
                    IF pIn[3] = DEFAULT_PRIZE_WEIGHTS
                    THEN 10 * OfTypes(pIn[1], rows, top3) + 3 * OfTypes(pIn[1], rows, others)
                    ELSE 20 * OfTypes(pIn[1], rows, {FD_FIRST_PRIZE_CLASS})
                         + 10 * OfTypes(pIn[1], rows, (top3 \cup others) \ {FD_FIRST_PRIZE_CLASS})

\* a first prize and a starter prize of digit 1 under a map that names the first
\* prize only: 2.0 + 1.0
C28_Witness ==
    /\ pFn = "analyze"
    /\ pIn[3] = FirstPrizeDouble
    /\ Len(pIn[1]) = 2
    /\ pIn[1][1] = Row(1, N1234, FD_FIRST_PRIZE_CLASS)
    /\ pIn[1][2] = Row(2, N1234, FD_STARTER_PRIZE_CLASS)
    /\ pOut.weighted["1"] = 30
    /\ pOut.weighted["0"] = 0

\* C24: for every probability vector and every k in 0..10,
\* select_digits_by_probability returns exactly k distinct digits, no unselected
\* digit has a higher probability than a selected one, and among digits of equal
\* probability the lower digit is selected, and listed, first.
SameProbability(p, q) == p.num * q.den = q.num * p.den

C24_TopKByProbability ==
    pFn = "top_k" =>
        LET probabilities == pIn[1]
            top_k == pIn[2]
            selected == SeqRange(pOut)
        IN  /\ Len(pOut) = top_k
            /\ Cardinality(selected) = top_k
            /\ selected \subseteq DigitChars
            /\ \A s \in selected, u \in DigitChars \ selected :
                  /\ probabilities[u].num * probabilities[s].den
                        <= probabilities[s].num * probabilities[u].den
                  /\ SameProbability(probabilities[u], probabilities[s])
                        => IntOfDigit(s) < IntOfDigit(u)
            /\ \A i \in 1..Len(pOut), j \in 1..Len(pOut) :
                  (i < j /\ SameProbability(probabilities[pOut[i]], probabilities[pOut[j]]))
                  => IntOfDigit(pOut[i]) < IntOfDigit(pOut[j])

\* digit 7 the most probable, the nine others level: top 3 is 7, 0, 1
C24_Witness ==
    /\ pFn = "top_k"
    /\ pIn[2] = 3
    /\ \A d \in DigitChars \ {"7"} :
          /\ SameProbability(pIn[1][d], pIn[1]["0"])
          /\ pIn[1]["7"].num > pIn[1][d].num
    /\ pOut = <<"7", "0", "1">>

\* C25: with the default (mean) threshold select_low_occurrence_digits returns
\* exactly the digits whose count is at most the mean of the ten counts; the set
\* is never empty and holds every digit of the minimum count.
AtMostMean(digit_counts) ==
    {d \in DigitChars : 10 * digit_counts[d] <= TenSum(digit_counts)}

MinimumDigits(digit_counts) ==
    {d \in DigitChars : \A e \in DigitChars : digit_counts[d] <= digit_counts[e]}

C25_LowOccurrenceIsAtMostMean ==
    pFn = "select" =>
        /\ SeqRange(pOut.low_occurrence) = AtMostMean(pIn[1])
        /\ Len(pOut.low_occurrence) = Cardinality(AtMostMean(pIn[1]))
        /\ pOut.low_occurrence # << >>
        /\ MinimumDigits(pIn[1]) \subseteq SeqRange(pOut.low_occurrence)

\* digit 3 never seen, digit 7 seen twice, the others once: the mean is 1 and all
\* digits but 7 are selected
C25_Witness ==
    /\ pFn = "select"
    /\ pIn[1]["3"] = 0
    /\ pIn[1]["7"] = 2
    /\ \A d \in DigitChars \ {"3", "7"} : pIn[1][d] = 1
    /\ pOut.low_occurrence = <<"0", "1", "2", "3", "4", "5", "6", "8", "9">>

\* C26: when no digit is at or below the threshold given, select_low_occurrence_digits
\* returns exactly 5 digits, none with a higher count than an unselected digit, and
\* a tie at the cut-off goes to the lower digit: of 6 digits level at the minimum the
\* 5 lowest are returned.
C26_FallbackIsLowerHalf ==
    (pFn = "low_occurrence" /\ \A d \in DigitChars : pIn[1][d] > pIn[2])
    => LET digit_counts == pIn[1]
           selected == SeqRange(pOut)
       IN  /\ Len(pOut) = 5
           /\ Cardinality(selected) = 5
           /\ selected \subseteq DigitChars
           /\ \A s \in selected, u \in DigitChars \ selected :
                 /\ digit_counts[s] <= digit_counts[u]
                 /\ digit_counts[s] = digit_counts[u] => IntOfDigit(s) < IntOfDigit(u)

\* digits 0..5 seen once, digits 6..9 twice, threshold 0: the 5 lowest of the six
C26_Witness ==
    /\ pFn = "low_occurrence"
    /\ pIn[2] = 0
    /\ \A d \in DigitChars : pIn[1][d] = IF IntOfDigit(d) < 6 THEN 1 ELSE 2
    /\ pOut = <<"0", "1", "2", "3", "4">>

\* C27: in main_original the final selection is exactly the union of
\* select_digits_priority_zero on the Top-3 counts and the digits level at the
\* minimum of the all-category counts, both counted on the last 6 draws; it is
\* never empty and holds each of the two selections.
LastSixRows(df) ==
    {i \in 1..Len(df) : Cardinality({x \in IndexDates(df) : x > df[i].date}) < 6}

Top3CountsOfLastSix(df) ==
    [d \in DigitChars |->
        Cardinality({i \in LastSixRows(df) \cap StartingWith(df, d) :
                        df[i].type \in {FD_FIRST_PRIZE_CLASS, FD_SECOND_PRIZE_CLASS,
                                        FD_THIRD_PRIZE_CLASS}})]

AllCountsOfLastSix(df) ==
    [d \in DigitChars |-> Cardinality(LastSixRows(df) \cap StartingWith(df, d))]

C27_FinalSelectionIsUnion ==
    (pFn = "main_original" /\ pOut.outcome = "selected")
    => LET priority_zero == SeqRange(select_digits_priority_zero(Top3CountsOfLastSix(pIn[1])))
           lowest == MinimumDigits(AllCountsOfLastSix(pIn[1]))
           final == SeqRange(pOut.final_selected_digits)
       IN  /\ final = priority_zero \cup lowest
           /\ Len(pOut.final_selected_digits) = Cardinality(final)
           /\ final # {}
           /\ priority_zero \subseteq final
           /\ lowest \subseteq final
           /\ SeqRange(pOut.selected_digits_step1) = priority_zero
           /\ SeqRange(pOut.selected_digits_step2) = lowest

\* every digit among the top prizes of the last 6 draws, 7 and 8 the rarest there
\* and the most frequent over all categories: the two selections are disjoint
C27_Witness ==
    /\ pFn = "main_original"
    /\ pOut.outcome = "selected"
    /\ \A d \in DigitChars : pOut.top3_first_digit_counts[d] > 0
    /\ pOut.selected_digits_step1 = <<"7", "8">>
    /\ pOut.selected_digits_step2 = <<"0", "1", "2", "3", "4", "5", "6", "9">>
    /\ pOut.final_selected_digits = DigitSeq

\* C30: for every count vector with total N and 0 < alpha1 < alpha2, each smoothed
\* probability under alpha2 is at least as close to 1/10 as under alpha1, and as
\* close only when counts[d] = N/10.  |n/m - 1/10| is |10n - m| / (10m).
Abs(x) == IF x < 0 THEN -x ELSE x

C30_LargerAlphaIsCloserToUniform ==
    pFn = "smooth_pair" =>
        \A d \in DigitChars :
            LET p1 == pOut.first[d]
                p2 == pOut.second[d]
                far1 == Abs(10 * p1.num - p1.den) * p2.den
                far2 == Abs(10 * p2.num - p2.den) * p1.den
            IN  /\ far2 <= far1
                /\ far2 = far1 => 10 * pIn[1][d] = TenSum(pIn[1])

\* digit 3 never seen, digit 7 twice, the others once, alpha 1 and 2: digit 3 moves
\* from 1/20 to 2/30, digit 0 stays at 1/10
C30_Witness ==
    /\ pFn = "smooth_pair"
    /\ pIn[2] = 1 /\ pIn[3] = 2
    /\ pIn[1]["3"] = 0 /\ pIn[1]["7"] = 2
    /\ \A d \in DigitChars \ {"3", "7"} : pIn[1][d] = 1
    /\ pOut.first["3"] = [num |-> 1, den |-> 20]
    /\ pOut.second["3"] = [num |-> 2, den |-> 30]
    /\ pOut.first["0"] = [num |-> 2, den |-> 20]
    /\ pOut.second["0"] = [num |-> 3, den |-> 30]

\* C29: at every step of the backtest walk and for every window size the tallies
\* agree: for each top_k 0 <= correct <= total, total is the same for every top_k
\* and equals the total of the uniformity tally, which is uniform + non_uniform and
\* the number of test dates processed so far that have a first prize with a numeric
\* leading character; the other test dates change no tally.
NumericFirstPrize(df, test_date) ==
    LET rows == {k \in 1..Len(df) : df[k].date = test_date /\ df[k].type = FD_FIRST_PRIZE_CLASS}
    IN  /\ rows # {}
        /\ Strip(df[SetMin(rows)].num) # << >>
        /\ Strip(df[SetMin(rows)].num)[1] \in DigitChars

\* the test indices from..to (counted from 0) that count
TestsCounted(df, from, to) ==
    LET unique_dates == UniqueDates(df)
    IN  Cardinality({i \in from..to : NumericFirstPrize(df, unique_dates[i + 1])})

TalliesAgree(window_results, n) ==
    /\ \A k \in DOMAIN window_results.accuracy :
          /\ 0 <= window_results.accuracy[k].correct
          /\ window_results.accuracy[k].correct <= window_results.accuracy[k].total
          /\ window_results.accuracy[k].total = n
    /\ window_results.chi2_tests.total = n
    /\ window_results.chi2_tests.uniform + window_results.chi2_tests.non_uniform = n
    /\ window_results.chi2_tests.uniform >= 0
    /\ window_results.chi2_tests.non_uniform >= 0

C29_TalliesAreConsistent ==
    /\ bt.pc \in {"window", "done"} =>
       \A k \in 1..Len(bt.results) :
          TalliesAgree(bt.results[k],
                       TestsCounted(bt.df, bt.results[k].window_size,
                                    Len(UniqueDates(bt.df)) - 1))
    /\ (bt.pc = "iter" \/ bt.returned = "raised")
       => TalliesAgree(bt.window_results,
                       TestsCounted(bt.df, bt.window_sizes[bt.w], bt.i - 1))

\* in the middle of a window: a test date without a numeric first prize passed
\* over, two tests counted, a hit among the top 5 and a miss of the top 1
C29_Witness ==
    /\ bt.pc = "iter"
    /\ bt.top_k_list = <<1, 3, 5>>
    /\ bt.window_results.chi2_tests.total >= 2
    /\ bt.window_results.chi2_tests.total < bt.i - bt.window_sizes[bt.w]
    /\ bt.window_results.accuracy[5].correct >= 1
    /\ bt.window_results.accuracy[1].correct < bt.window_results.accuracy[1].total
    /\ bt.window_results.accuracy[3].total = bt.window_results.chi2_tests.total

====
